---- MODULE Spec2Model ----
(***************************************************************************)
(* A model of the AtomCLI build pipeline: the smart-caching download layer *)
(* (components/downloader/index.js) and the build orchestrator             *)
(* (components/builder/index.js).                                          *)
(*                                                                         *)
(* Four groups of state, each with its own specifications:                 *)
(*   cacheVars  the destination directory of downloadFromNpm / clearCache  *)
(*              (Spec), the inputs of checkIfUpToDate (CheckSpec) and the  *)
(*              manifest written and read back (ManifestSpec);             *)
(*   dlVars     one downloadFile call (DownloadSpec, DownloadFairSpec);    *)
(*   buildVars  one buildTargets call (BuildSpec), and the source          *)
(*              directory of prepareSource (PrepareSpec);                  *)
(*   pureVars   the last call of a function of its arguments and the host  *)
(*              (FunctionsSpec, PatchSpec, ExtractSpec), or the            *)
(*              interactive application of scripts/test/test-multi-cli.cjs *)
(*              (AppSpec).                                                 *)
(* A specification leaves the other groups at their initial values.        *)
(***************************************************************************)
EXTENDS Integers, Sequences, FiniteSets, TLC

VARIABLES
    \* ---- the destination directory (downloader) ----
    manifestFile,   \* the file destDir/.atomcli-manifest.json
    fsDirs,         \* the directories of destDir: name -> content
    tarballs,       \* the .tgz files of destDir: <<package, version>> -> content
    npmPc,          \* where the current downloadFromNpm call stands
    npmArgs,        \* its arguments
    npmInfo,        \* what getNpmPackageVersionInfo answered
    npmResult,      \* what the last downloadFromNpm / clearCache call returned or threw
    chk,            \* the last checkIfUpToDate call: its arguments and its verdict
    roundTrip,      \* the last writeManifest-then-readManifest: the data and what was read
    \* ---- one downloadFile call ----
    dlPc,           \* state of the innermost (current) request
    dlOutcome,      \* the promise the caller holds: pending / resolved / rejected
    dlFile,         \* the file at destPath
    dlRecv,         \* body chunks received on the response
    dlIdle,         \* ticks the current request's socket has been idle
    dlStale,        \* an earlier (redirected) request still has its timeout armed
    dlUnlink,       \* an fs.unlink(destPath) has been issued and not yet performed
    dlSeen,         \* what the caller saw when the outcome reached it
    \* ---- one buildTargets call ----
    targetIds,      \* the requested target ids
    toolConfig,     \* options.toolConfig (a tool id of CLI_REGISTRY, or none)
    idx,            \* the loop position of buildTargets
    results,        \* the results pushed so far
    btPc,           \* where the current buildTarget call stands
    btsDone,        \* buildTargets has returned
    bunAvailable,   \* a Bun executable answers --version
    srcFiles,       \* the files of sourceDir
    outDirs,        \* the platform directories of outputDir
    proc,           \* the compiler process of the current buildTarget call
    attempted,      \* the target ids buildTarget was called with, in order
    started,        \* how many compiler processes were started
    \* ---- functions of their arguments and of the host ----
    host,           \* the host of the compiled binary: platform, commands, files
    call            \* the last call of one of them: its arguments and its result

cacheVars == <<manifestFile, fsDirs, tarballs, npmPc, npmArgs, npmInfo, npmResult, chk,
               roundTrip>>
dlVars    == <<dlPc, dlOutcome, dlFile, dlRecv, dlIdle, dlStale, dlUnlink, dlSeen>>
buildVars == <<targetIds, toolConfig, idx, results, btPc, btsDone, bunAvailable,
               srcFiles, outDirs, proc, attempted, started>>
pureVars  == <<host, call>>
vars      == <<cacheVars, dlVars, buildVars, pureVars>>

(***************************************************************************)
(* JavaScript values                                                       *)
(***************************************************************************)
Undefined == "undefined"
Null      == "null"

\* JavaScript truthiness of a string-or-undefined value.
Truthy(x) == x \notin {Undefined, Null, ""}

(***************************************************************************)
(* Inputs                                                                  *)
(***************************************************************************)
Packages == {"@anthropic-ai/claude-code", "@openai/codex"}
\* The packages downloaded into the destination directory: each tool has a
\* directory of its own (core/<toolId>).
DestPackages == {"@anthropic-ai/claude-code"}
Versions == {"2.0.75", "2.0.76"}
\* Hex digests; the registry may publish one in upper case.
Digests  == {"ab12", "cd34"}
Shasums  == Digests \cup {"AB12"}

MANIFEST_FILENAME == ".atomcli-manifest.json"
ExtractDirName    == "package"
DirNames          == {ExtractDirName, "package-old"}
TarballUrl        == "https://registry.npmjs.org/pkg.tgz"

\* String.prototype.toLowerCase on the digests of the model.
ToLowerCase(s) == IF s = "AB12" THEN "ab12" ELSE s

(***************************************************************************)
(* The manifest file: JSON.stringify / JSON.parse                          *)
(***************************************************************************)
ManifestKeys == {"packageName", "version", "shasum", "tarball", "extractDir"}

NoFile      == [kind |-> "absent"]
CorruptFile == [kind |-> "corrupt"]
JsonFile(obj) == [kind |-> "json", text |-> obj]

\* JSON.stringify: the text holds one "key": value member for each property
\* whose value is not undefined.
JSONStringify(data) ==
    { <<key, data[key]>> : key \in {k \in DOMAIN data : data[k] # Undefined} }

\* JSON.parse: the object with one property for each member of the text.
JSONParse(text) ==
    [key \in {member[1] : member \in text} |->
        (CHOOSE member \in text : member[1] = key)[2]]

\* (mutant) a writeManifest that leaves the shasum out.
writeManifestWithoutShasum(data) ==
    JsonFile(JSONStringify([k \in DOMAIN data \ {"shasum"} |-> data[k]]))

\* obj.key: undefined when the object has no such property.
Get(obj, key) == IF key \in DOMAIN obj THEN obj[key] ELSE Undefined

\* readManifest: the parsed manifest, or null when the file is missing,
\* unreadable or not JSON.
NullManifest == [isNull |-> TRUE]

\* (mutant) a readManifest that takes an unparsable file for an empty object.
readManifestLenient(file) ==
    IF file.kind = "json" THEN [isNull |-> FALSE, value |-> JSONParse(file.text)]
    ELSE IF file.kind = "corrupt" THEN [isNull |-> FALSE, value |-> <<>>]
    ELSE NullManifest

readManifest(file) ==
    IF file.kind = "json"
      THEN [isNull |-> FALSE, value |-> JSONParse(file.text)]
      ELSE NullManifest

\* writeManifest, when the write succeeds.
writeManifest(data) == JsonFile(JSONStringify(data))

(***************************************************************************)
(* Directories                                                             *)
(***************************************************************************)
NoDir == [state |-> "absent"]
Dir(st, p, v, d) == [state |-> st, packageName |-> p, version |-> v, digest |-> d]

existsSync(dirs, name) == dirs[name].state # "absent"

(***************************************************************************)
(* checkIfUpToDate                                                         *)
(***************************************************************************)
Verdict(u, lv, r) == [upToDate |-> u, localVersion |-> lv, reason |-> r]

\* (mutant) a shasum test that fails when a shasum is missing.
ShasumDiffersStrict(local, remote) == local # remote

\* The shasum test skipping the comparison when either side is missing.
ShasumDiffers(local, remote) ==
    Truthy(local) /\ Truthy(remote) /\ local # remote

\* The directory whose existence is required.
RequiredDir(manifest) == ExtractDirName

\* (mutant) a check that compares the shasums before the versions.
checkIfUpToDateShasumFirst(file, dirs, packageName, remoteVersion, remoteShasum) ==
    LET read     == readManifest(file)
        manifest == read.value
    IN
    IF read.isNull
      THEN Verdict(FALSE, Null, <<"No local manifest found">>)
    ELSE IF Get(manifest, "packageName") # packageName
      THEN Verdict(FALSE, Get(manifest, "version"),
                   <<"Different package", Get(manifest, "packageName"), packageName>>)
    ELSE IF ShasumDiffers(Get(manifest, "shasum"), remoteShasum)
      THEN Verdict(FALSE, Get(manifest, "version"), <<"Checksum mismatch">>)
    ELSE IF Get(manifest, "version") # remoteVersion
      THEN Verdict(FALSE, Get(manifest, "version"),
                   <<"Version mismatch", Get(manifest, "version"), remoteVersion>>)
    ELSE IF ~existsSync(dirs, RequiredDir(manifest))
      THEN Verdict(FALSE, Get(manifest, "version"), <<"Extracted files missing">>)
    ELSE Verdict(TRUE, Get(manifest, "version"), <<"Local version matches remote">>)

checkIfUpToDate(file, dirs, packageName, remoteVersion, remoteShasum) ==
    LET read     == readManifest(file)
        manifest == read.value
    IN
    IF read.isNull
      THEN Verdict(FALSE, Null, <<"No local manifest found">>)
    ELSE IF Get(manifest, "packageName") # packageName
      THEN Verdict(FALSE, Get(manifest, "version"),
                   <<"Different package", Get(manifest, "packageName"), packageName>>)
    ELSE IF Get(manifest, "version") # remoteVersion
      THEN Verdict(FALSE, Get(manifest, "version"),
                   <<"Version mismatch", Get(manifest, "version"), remoteVersion>>)
    ELSE IF ShasumDiffers(Get(manifest, "shasum"), remoteShasum)
      THEN Verdict(FALSE, Get(manifest, "version"), <<"Checksum mismatch">>)
    ELSE IF ~existsSync(dirs, RequiredDir(manifest))
      THEN Verdict(FALSE, Get(manifest, "version"), <<"Extracted files missing">>)
    ELSE Verdict(TRUE, Get(manifest, "version"), <<"Local version matches remote">>)

(***************************************************************************)
(* downloadFromNpm and clearCache on one destination directory             *)
(***************************************************************************)
NoArgs   == [packageName |-> Undefined, version |-> Undefined, force |-> FALSE]
NoInfo   == [version |-> Undefined, shasum |-> Undefined, tarball |-> Undefined]
NoResult == [kind |-> "none"]
NoCheck  == [called |-> FALSE]
NoRoundTrip == [called |-> FALSE]

Threw(message) == [kind |-> "error", message |-> message]
Returned(p, v, skipped) ==
    [kind |-> "ok", name |-> p, version |-> v, skipped |-> skipped]

\* A result together with what the registry had answered in the call
\* (version, shasum): kept for the record of the call.
WithAnswer(result, version, shasum) ==
    result @@ [answer |-> [version |-> version, shasum |-> shasum]]

TarballPaths == DestPackages \X Versions
\* path.join(destDir, `${packageName.replace('/', '-')}-${targetVersion}.tgz`)
tarballPath == <<npmArgs.packageName, npmInfo.version>>

\* The call ends: it returns or throws `result`, and its locals are gone.
EndCall(result) ==
    /\ npmPc' = "idle"
    /\ npmResult' = result
    /\ npmArgs' = NoArgs
    /\ npmInfo' = NoInfo

\* downloadFromNpm(packageName, destDir, {version, force}) is called.
CallDownloadFromNpm(p, v, f) ==
    /\ npmPc = "idle"
    /\ npmPc' = "getInfo"
    /\ npmArgs' = [packageName |-> p, version |-> v, force |-> f]
    /\ npmInfo' = NoInfo
    /\ npmResult' = NoResult
    /\ UNCHANGED <<manifestFile, fsDirs, tarballs, chk, roundTrip, dlVars, buildVars, pureVars>>

\* getNpmPackageVersionInfo fails (fetchJson rejects): the call throws.
GetInfoFails ==
    /\ npmPc = "getInfo"
    /\ EndCall(Threw("registry"))
    /\ UNCHANGED <<manifestFile, fsDirs, tarballs, chk, roundTrip, dlVars, buildVars, pureVars>>

\* (mutant) the force flag read the wrong way round.
SkipsDownloadWhenForced(force, cacheCheck) == force /\ cacheCheck.upToDate

\* if (!force) { ... if (cacheCheck.upToDate) return {..., skipped: true} }
SkipsDownload(force, cacheCheck) == ~force /\ cacheCheck.upToDate

\* getNpmPackageVersionInfo answers; then, without awaiting, the tarball
\* test and the cache check.
GetInfoAnswers(latest, shasum, tarball) ==
    LET targetVersion == IF Truthy(npmArgs.version) THEN npmArgs.version ELSE latest
        cacheCheck == checkIfUpToDate(manifestFile, fsDirs, npmArgs.packageName,
                                      targetVersion, shasum)
    IN
    /\ npmPc = "getInfo"
    /\ IF ~Truthy(tarball)
         THEN EndCall(Threw("No tarball found"))
         ELSE IF SkipsDownload(npmArgs.force, cacheCheck)
         THEN EndCall(WithAnswer(Returned(npmArgs.packageName, targetVersion, TRUE),
                                 targetVersion, shasum))
         ELSE /\ npmPc' = "download"
              /\ npmInfo' = [version |-> targetVersion, shasum |-> shasum,
                             tarball |-> tarball]
              /\ UNCHANGED <<npmArgs, npmResult>>
    /\ UNCHANGED <<manifestFile, fsDirs, tarballs, chk, roundTrip, dlVars, buildVars, pureVars>>

\* await downloadFile(tarballUrl, tarballPath) resolves: the file holds a
\* body with digest d.
DownloadResolves(d) ==
    /\ npmPc = "download"
    /\ tarballs' = [tarballs EXCEPT ![tarballPath] = d]
    /\ npmPc' = IF Truthy(npmInfo.shasum) THEN "verify" ELSE "extract"
    /\ UNCHANGED <<manifestFile, fsDirs, npmArgs, npmInfo, npmResult, chk, roundTrip, dlVars, buildVars, pureVars>>

\* await downloadFile rejects: the call throws; the file at tarballPath is
\* as before or holds part of a body.
DownloadRejects(left) ==
    /\ npmPc = "download"
    /\ left \in {tarballs[tarballPath], "partial"}
    /\ tarballs' = [tarballs EXCEPT ![tarballPath] = left]
    /\ EndCall(Threw("download"))
    /\ UNCHANGED <<manifestFile, fsDirs, chk, roundTrip, dlVars, buildVars, pureVars>>

\* (mutant) a verification that accepts every digest.
verifyChecksumAcceptsAll(actualHash, expectedHash) == TRUE

\* verifyChecksum(filePath, expectedHash, 'sha1')
verifyChecksum(actualHash, expectedHash) ==
    ToLowerCase(actualHash) = ToLowerCase(expectedHash)

\* await verifyChecksum(...) resolves: a mismatch deletes the tarball and throws.
VerifyChecksum ==
    /\ npmPc = "verify"
    /\ IF verifyChecksum(tarballs[tarballPath], npmInfo.shasum)
         THEN /\ npmPc' = "extract"
              /\ UNCHANGED <<tarballs, npmArgs, npmInfo, npmResult>>
         ELSE /\ tarballs' = [tarballs EXCEPT ![tarballPath] = "absent"]
              /\ EndCall(Threw("Checksum verification failed"))
    /\ UNCHANGED <<manifestFile, fsDirs, chk, roundTrip, dlVars, buildVars, pureVars>>

\* calculateChecksum rejects (the read stream errors): the call throws.
VerifyRejects ==
    /\ npmPc = "verify"
    /\ EndCall(Threw("checksum read"))
    /\ UNCHANGED <<manifestFile, fsDirs, tarballs, chk, roundTrip, dlVars, buildVars, pureVars>>

\* What is in the extraction directory after extractTarball: everything
\* of the tarball ("complete"), part of it, or nothing.
Extracted(st) ==
    IF st = "absent" THEN NoDir
    ELSE Dir(st, npmArgs.packageName, npmInfo.version, tarballs[tarballPath])

\* rmSync(extractDir) and await extractTarball(tarballPath, destDir): the
\* old extraction is removed first; a failing extraction throws and leaves
\* what it had written.
ExtractTarball(st) ==
    /\ npmPc = "extract"
    /\ fsDirs' = [fsDirs EXCEPT ![ExtractDirName] = Extracted(st)]
    /\ IF st = "complete"
         THEN /\ npmPc' = "manifest"
              /\ UNCHANGED <<npmArgs, npmInfo, npmResult>>
         ELSE EndCall(Threw("extract"))
    /\ UNCHANGED <<manifestFile, tarballs, chk, roundTrip, dlVars, buildVars, pureVars>>

\* (mutant) a record of the version that was asked for, not the one that
\* was downloaded.
ManifestDataRequested ==
    [packageName |-> npmArgs.packageName,
     version     |-> npmArgs.version,
     shasum      |-> npmInfo.shasum,
     tarball     |-> npmInfo.tarball,
     extractDir  |-> ExtractDirName]

\* The record downloadFromNpm hands to writeManifest.
ManifestData ==
    [packageName |-> npmArgs.packageName,
     version     |-> npmInfo.version,
     shasum      |-> npmInfo.shasum,
     tarball     |-> npmInfo.tarball,
     extractDir  |-> ExtractDirName]

\* writeManifest (its failure is swallowed), unlinkSync(tarballPath) (its
\* failure is swallowed), return.
FinishDownload(written, unlinked) ==
    /\ npmPc = "manifest"
    /\ manifestFile' = IF written THEN writeManifest(ManifestData) ELSE manifestFile
    /\ tarballs' = IF unlinked THEN [tarballs EXCEPT ![tarballPath] = "absent"]
                               ELSE tarballs
    /\ EndCall(WithAnswer(Returned(npmArgs.packageName, npmInfo.version, FALSE),
                          npmInfo.version, npmInfo.shasum))
    /\ UNCHANGED <<fsDirs, chk, roundTrip, dlVars, buildVars, pureVars>>

\* (mutant) a clearCache that removes the manifest and leaves the package
\* directory.
clearCacheManifestOnly ==
    /\ npmPc = "idle"
    /\ manifestFile' = NoFile
    /\ npmResult' = [kind |-> "cleared", cleared |-> (manifestFile.kind # "absent")]
    /\ UNCHANGED <<fsDirs, tarballs, npmPc, npmArgs, npmInfo, chk, roundTrip, dlVars,
                   buildVars, pureVars>>

\* clearCache(destDir)
clearCache ==
    /\ npmPc = "idle"
    /\ manifestFile' = NoFile
    /\ fsDirs' = [fsDirs EXCEPT ![ExtractDirName] = NoDir]
    /\ npmResult' = [kind |-> "cleared",
                     cleared |-> (manifestFile.kind # "absent"
                                  \/ existsSync(fsDirs, ExtractDirName))]
    /\ UNCHANGED <<tarballs, npmPc, npmArgs, npmInfo, chk, roundTrip, dlVars, buildVars, pureVars>>

\* checkIfUpToDate(destDir, packageName, remoteVersion, remoteShasum) is called.
CallCheckIfUpToDate(p, v, s) ==
    /\ npmPc = "idle"
    /\ chk' = [called |-> TRUE, packageName |-> p, version |-> v, shasum |-> s,
               verdict |-> checkIfUpToDate(manifestFile, fsDirs, p, v, s)]
    /\ UNCHANGED <<manifestFile, fsDirs, tarballs, npmPc, npmArgs, npmInfo, npmResult,
                   roundTrip, dlVars, buildVars, pureVars>>

\* writeManifest(destDir, data), whose failure is swallowed (written = FALSE:
\* the file is as it was), then readManifest(destDir), then
\* checkIfUpToDate(destDir, data.packageName, data.version, data.shasum).
WriteThenRead(data, written) ==
    /\ npmPc = "idle"
    /\ manifestFile' = IF written THEN writeManifest(data) ELSE manifestFile
    /\ roundTrip' = [called |-> TRUE, data |-> data, written |-> written,
                     read |-> readManifest(manifestFile')]
    /\ chk' = [called |-> TRUE, packageName |-> data.packageName,
               version |-> data.version, shasum |-> data.shasum,
               verdict |-> checkIfUpToDate(manifestFile', fsDirs, data.packageName,
                                           data.version, data.shasum)]
    /\ UNCHANGED <<fsDirs, tarballs, npmPc, npmArgs, npmInfo, npmResult, dlVars, buildVars, pureVars>>

(***************************************************************************)
(* downloadFile(url, destPath): one call, its redirects included           *)
(***************************************************************************)
\* Chunks of a 200 response body.
BodyLen == 2
\* request.setTimeout(30000, ...): the socket's idle time, in ticks.
TimeoutTicks == 2

NoDestFile == [exists |-> FALSE, chunks |-> 0]
NotSeen    == [delivered |-> FALSE]

\* resolve(...) / reject(...) on the promise the caller holds: a promise
\* settles once. Each level of the redirect recursion hands its outcome to
\* the level above (.then(resolve).catch(reject)).
Settle(outcome) == IF dlOutcome = "pending" THEN outcome ELSE dlOutcome

\* downloadFile is called: protocol.get(url, ...) sends the request.
CallDownloadFile ==
    /\ dlPc = "idle"
    /\ dlPc' = "waiting"
    /\ dlIdle' = 0
    /\ UNCHANGED <<dlOutcome, dlFile, dlRecv, dlStale, dlUnlink, dlSeen, cacheVars, buildVars, pureVars>>

\* Time passes with no traffic on the current request's socket.
Tick ==
    /\ dlPc \in {"waiting", "streaming"}
    /\ dlIdle < TimeoutTicks
    /\ dlIdle' = dlIdle + 1
    /\ UNCHANGED <<dlPc, dlOutcome, dlFile, dlRecv, dlStale, dlUnlink, dlSeen, cacheVars, buildVars, pureVars>>

\* The timeout callback of the current request: request.destroy() and
\* reject(new Error('Download timeout')).
Timeout ==
    /\ dlPc \in {"waiting", "streaming"}
    /\ dlIdle = TimeoutTicks
    /\ dlPc' = "closed"
    /\ dlOutcome' = Settle("rejected: Download timeout")
    /\ UNCHANGED <<dlFile, dlRecv, dlIdle, dlStale, dlUnlink, dlSeen, cacheVars, buildVars, pureVars>>

\* request.on('error', reject): the socket fails, before or during the body.
RequestError ==
    /\ dlPc \in {"waiting", "streaming"}
    /\ dlPc' = "closed"
    /\ dlOutcome' = Settle("rejected: request error")
    /\ UNCHANGED <<dlFile, dlRecv, dlIdle, dlStale, dlUnlink, dlSeen, cacheVars, buildVars, pureVars>>

\* A 3xx response with a Location header: downloadFile calls itself for the
\* new URL. The answered request keeps its timeout armed for as long as its
\* socket stays open (keepOpen), since its response is never consumed.
RespondRedirect(keepOpen) ==
    /\ dlPc = "waiting"
    /\ dlIdle' = 0
    /\ dlStale' = (dlStale \/ keepOpen)
    /\ UNCHANGED <<dlPc, dlOutcome, dlFile, dlRecv, dlUnlink, dlSeen, cacheVars, buildVars, pureVars>>

\* Any other status than 200: reject(new Error(`HTTP ${statusCode}`)).
RespondNot200 ==
    /\ dlPc = "waiting"
    /\ dlPc' = "closed"
    /\ dlOutcome' = Settle("rejected: HTTP status")
    /\ UNCHANGED <<dlFile, dlRecv, dlIdle, dlStale, dlUnlink, dlSeen, cacheVars, buildVars, pureVars>>

\* Status 200: fs.createWriteStream(destPath) and response.pipe(fileStream).
Respond200 ==
    /\ dlPc = "waiting"
    /\ dlPc' = "streaming"
    /\ dlFile' = [exists |-> TRUE, chunks |-> 0]
    /\ dlRecv' = 0
    /\ dlIdle' = 0
    /\ UNCHANGED <<dlOutcome, dlStale, dlUnlink, dlSeen, cacheVars, buildVars, pureVars>>

\* response 'data': a chunk arrives and is handed to the file stream.
ReceiveChunk ==
    /\ dlPc = "streaming"
    /\ dlRecv < BodyLen
    /\ dlRecv' = dlRecv + 1
    /\ dlIdle' = 0
    /\ UNCHANGED <<dlPc, dlOutcome, dlFile, dlStale, dlUnlink, dlSeen, cacheVars, buildVars, pureVars>>

\* The file stream writes a buffered chunk to disk.
WriteChunk ==
    /\ dlPc \in {"streaming", "ended"}
    /\ dlFile.exists
    /\ dlFile.chunks < dlRecv
    /\ dlFile' = [dlFile EXCEPT !.chunks = @ + 1]
    /\ UNCHANGED <<dlPc, dlOutcome, dlRecv, dlIdle, dlStale, dlUnlink, dlSeen, cacheVars, buildVars, pureVars>>

\* response 'end': the pipe ends the file stream.
ResponseEnd ==
    /\ dlPc = "streaming"
    /\ dlRecv = BodyLen
    /\ dlPc' = "ended"
    /\ UNCHANGED <<dlOutcome, dlFile, dlRecv, dlIdle, dlStale, dlUnlink, dlSeen, cacheVars, buildVars, pureVars>>

\* The file stream may report 'finish'.
Flushed == dlFile.chunks = dlRecv

\* fileStream 'finish': everything handed to the stream is on disk;
\* fileStream.close() and resolve(destPath).
Finish ==
    /\ dlPc = "ended"
    /\ Flushed
    /\ dlPc' = "closed"
    /\ dlOutcome' = Settle("resolved")
    /\ UNCHANGED <<dlFile, dlRecv, dlIdle, dlStale, dlUnlink, dlSeen, cacheVars, buildVars, pureVars>>

\* fileStream 'error': fs.unlink(destPath, () => {}) is issued (it runs
\* asynchronously) and reject(err).
WriteError ==
    /\ dlPc \in {"streaming", "ended"}
    /\ dlPc' = "closed"
    /\ dlUnlink' = TRUE
    /\ dlOutcome' = Settle("rejected: write error")
    /\ UNCHANGED <<dlFile, dlRecv, dlIdle, dlStale, dlSeen, cacheVars, buildVars, pureVars>>

\* The issued fs.unlink is performed.
UnlinkDone ==
    /\ dlUnlink
    /\ dlUnlink' = FALSE
    /\ dlFile' = NoDestFile
    /\ UNCHANGED <<dlPc, dlOutcome, dlRecv, dlIdle, dlStale, dlSeen, cacheVars, buildVars, pureVars>>

\* The timeout callback of an earlier, redirected request: its reject
\* reaches the caller's promise through the chain of .catch(reject); the
\* current request is not touched.
StaleTimeout ==
    /\ dlStale
    /\ dlStale' = FALSE
    /\ dlOutcome' = Settle("rejected: Download timeout")
    /\ UNCHANGED <<dlPc, dlFile, dlRecv, dlIdle, dlUnlink, dlSeen, cacheVars, buildVars, pureVars>>

\* The settled promise reaches the caller (the await continues or throws).
Deliver ==
    /\ dlOutcome # "pending"
    /\ ~dlSeen.delivered
    /\ dlSeen' = [delivered |-> TRUE, outcome |-> dlOutcome, file |-> dlFile]
    /\ UNCHANGED <<dlPc, dlOutcome, dlFile, dlRecv, dlIdle, dlStale, dlUnlink, cacheVars, buildVars, pureVars>>

(***************************************************************************)
(* The registry model                                                      *)
(***************************************************************************)
CLI_REGISTRY ==
    ( "claude-code" :> [name |-> "Claude Code",
         build |-> [entryPoint |-> "cli.js", envPrefix |-> "CLAUDE_CODE",
                    binaryName |-> "claude-code"]] @@
      "codex" :> [name |-> "OpenAI Codex",
         build |-> [entryPoint |-> "bin/codex.js", envPrefix |-> "CODEX",
                    binaryName |-> "codex"]] @@
      "copilot" :> [name |-> "GitHub Copilot CLI",
         build |-> [entryPoint |-> "dist/index.js", envPrefix |-> "COPILOT",
                    binaryName |-> "copilot"]] @@
      "gemini" :> [name |-> "Google Gemini CLI",
         build |-> [entryPoint |-> "dist/index.js", envPrefix |-> "GEMINI",
                    binaryName |-> "gemini"]] @@
      "cody" :> [name |-> "Sourcegraph Cody CLI",
         build |-> [entryPoint |-> "cli.js", envPrefix |-> "CODY",
                    binaryName |-> "cody"]] @@
      "launcher" :> [name |-> "AtomCLI Launcher",
         build |-> [entryPoint |-> "launcher-cli.js", envPrefix |-> "LAUNCHER",
                    binaryName |-> "launcher"]] )

Template(t, p, a, v, e) ==
    [target |-> t, platform |-> p, arch |-> a, variant |-> v, extension |-> e]

BUILD_TARGET_TEMPLATES ==
    ( "windows-x64" :> Template("bun-windows-x64", "windows", "x64", "standard", ".exe") @@
      "windows-x64-modern" :>
          (Template("bun-windows-x64-modern", "windows", "x64", "modern", ".exe")
           @@ [requires |-> "AVX2 (CPUs from 2013+)"]) @@
      "windows-x64-baseline" :>
          (Template("bun-windows-x64-baseline", "windows", "x64", "baseline", ".exe")
           @@ [requires |-> "SSE2 (CPUs from 2003+)"]) @@
      "linux-x64" :> Template("bun-linux-x64", "linux", "x64", "standard", "") @@
      "linux-x64-modern" :> Template("bun-linux-x64-modern", "linux", "x64", "modern", "") @@
      "linux-x64-baseline" :>
          Template("bun-linux-x64-baseline", "linux", "x64", "baseline", "") @@
      "linux-arm64" :> Template("bun-linux-arm64", "linux", "arm64", "standard", "") @@
      "linux-x64-musl" :>
          (Template("bun-linux-x64-musl", "linux", "x64", "musl", "") @@ [libc |-> "musl"]) @@
      "linux-arm64-musl" :>
          (Template("bun-linux-arm64-musl", "linux", "arm64", "musl", "") @@ [libc |-> "musl"]) @@
      "macos-x64" :> Template("bun-darwin-x64", "macos", "x64", "standard", "") @@
      "macos-arm64" :> Template("bun-darwin-arm64", "macos", "arm64", "standard", "") @@
      "android-arm64" :>
          (Template("bun-linux-arm64", "android", "arm64", "termux", "")
           @@ [shell |-> "/data/data/com.termux/files/usr/bin/bash",
              description |-> "Android ARM64 (Termux)"]) )

\* toolConfig?.build?.<key>, undefined when there is no tool configuration.
BuildField(config, key) ==
    IF config = Undefined THEN Undefined ELSE CLI_REGISTRY[config].build[key]

\* (mutant) output names made from the tool id, whatever the binary name.
generateBuildTargetsFromToolId(id, config) ==
    [t \in DOMAIN BUILD_TARGET_TEMPLATES |->
       [output |-> id \o "-" \o t \o BUILD_TARGET_TEMPLATES[t].extension]
       @@ BUILD_TARGET_TEMPLATES[t]]

\* generateBuildTargets(toolId, toolConfig): every template, with
\* output = `${binaryName}-${id}${template.extension || ''}`.
generateBuildTargets(toolId, config) ==
    LET binaryName == IF Truthy(BuildField(config, "binaryName"))
                        THEN BuildField(config, "binaryName") ELSE toolId
    IN [id \in DOMAIN BUILD_TARGET_TEMPLATES |->
          [output |-> binaryName \o "-" \o id \o BUILD_TARGET_TEMPLATES[id].extension]
          @@ BUILD_TARGET_TEMPLATES[id]]

\* The default targets (Claude Code).
BUILD_TARGETS == generateBuildTargets("claude-code", "claude-code")

\* Object.entries(BUILD_TARGETS): the keys in insertion order.
TargetOrder ==
    << "windows-x64", "windows-x64-modern", "windows-x64-baseline",
       "linux-x64", "linux-x64-modern", "linux-x64-baseline", "linux-arm64",
       "linux-x64-musl", "linux-arm64-musl", "macos-x64", "macos-arm64",
       "android-arm64" >>

\* process.platform and process.arch of the hosts Node runs on.
HostPlatforms == {"win32", "darwin", "linux", "freebsd", "android"}
HostArchs     == {"x64", "arm64", "ia32", "arm"}

\* getCurrentTarget(): the first standard target of the host's platform and
\* architecture, 'linux-x64' when there is none.
getCurrentTarget(processPlatform, processArch) ==
    LET platform == IF processPlatform = "win32" THEN "windows"
                    ELSE IF processPlatform = "darwin" THEN "macos"
                    ELSE "linux"
        arch == processArch
        found == { i \in DOMAIN TargetOrder :
                     /\ BUILD_TARGETS[TargetOrder[i]].platform = platform
                     /\ BUILD_TARGETS[TargetOrder[i]].arch = arch
                     /\ BUILD_TARGETS[TargetOrder[i]].variant = "standard" }
    IN IF found # {}
         THEN TargetOrder[CHOOSE i \in found : \A j \in found : i <= j]
         ELSE "linux-x64"

\* getCurrentTarget() is called on a host.
CallGetCurrentTarget(processPlatform, processArch) ==
    /\ call' = [fn |-> "getCurrentTarget", platform |-> processPlatform,
                arch |-> processArch,
                result |-> getCurrentTarget(processPlatform, processArch)]
    /\ UNCHANGED <<cacheVars, dlVars, buildVars, host>>

\* generateBuildTargets(id, config) is called.
CallGenerateBuildTargets(id, config) ==
    /\ call' = [fn |-> "generateBuildTargets", toolId |-> id, toolConfig |-> config,
                result |-> generateBuildTargets(id, config)]
    /\ UNCHANGED <<cacheVars, dlVars, buildVars, host>>

(***************************************************************************)
(* SHELL_DETECTION_CODE: __atomcli_detectShell() in the compiled binary    *)
(***************************************************************************)
TermuxBash == "/data/data/com.termux/files/usr/bin/bash"
winShells  == <<"pwsh.exe", "powershell.exe", "cmd.exe">>
unixShells == <<"/bin/bash", "/bin/zsh", "/bin/sh">>

\* A host: process.platform, the commands `where` finds (Windows), the
\* paths fs.existsSync finds (elsewhere).
Host(processPlatform, onPath, existing) ==
    [platform |-> processPlatform, onPath |-> onPath, existing |-> existing]

\* The loops `for (...) { if (found) return shells[i]; }`, from position i:
\* the first of `shells` in `found`, `fallback` when the loop ends.
RECURSIVE FirstFound(_, _, _, _)
FirstFound(shells, i, found, fallback) ==
    IF i > Len(shells) THEN fallback
    ELSE IF shells[i] \in found THEN shells[i]
    ELSE FirstFound(shells, i + 1, found, fallback)

\* (mutant) $SHELL is tried before the Termux path.
detectShellEnvFirst(env, h) ==
    IF Truthy(env.CLAUDE_SHELL) THEN env.CLAUDE_SHELL
    ELSE IF h.platform = "win32"
      THEN FirstFound(winShells, 1, h.onPath, "cmd.exe")
    ELSE IF Truthy(env.SHELL) /\ env.SHELL \in h.existing THEN env.SHELL
    ELSE IF TermuxBash \in h.existing THEN TermuxBash
    ELSE FirstFound(unixShells, 1, h.existing, "/bin/sh")

\* __atomcli_detectShell() with process.env = env on host h.
detectShell(env, h) ==
    IF Truthy(env.CLAUDE_SHELL) THEN env.CLAUDE_SHELL
    ELSE IF h.platform = "win32"
      THEN FirstFound(winShells, 1, h.onPath, "cmd.exe")
    ELSE IF TermuxBash \in h.existing THEN TermuxBash
    ELSE IF Truthy(env.SHELL) /\ env.SHELL \in h.existing THEN env.SHELL
    ELSE FirstFound(unixShells, 1, h.existing, "/bin/sh")

\* __atomcli_detectShell() is called with an environment.
CallDetectShell(env) ==
    /\ call' = [fn |-> "detectShell", env |-> env, result |-> detectShell(env, host)]
    /\ UNCHANGED <<cacheVars, dlVars, buildVars, host>>

(***************************************************************************)
(* prepareSource, buildTarget, buildTargets                                *)
(***************************************************************************)
\* Most targets of one buildTargets call.
MaxTargets == 2
\* Most chunks a compiler writes to stderr.
MaxStderr == 1
\* The target ids a call is given; the last two are no targets.
TargetInputs == {"windows-x64", "linux-x64", "linux-arm64", "no-such-target", "constructor"}
\* The tool configurations a call is given.
ConfigInputs == {Undefined, "codex"}
\* Exit codes of the compiler: 0, 1, and -1 for a process killed by a
\* signal (code === null).
ExitCodes == -1 .. 1

\* options.toolId: the id of the configured tool.
toolId == toolConfig

\* toolConfig?.build?.entryPoint || 'cli.js'
EntryPoint(config) ==
    IF Truthy(BuildField(config, "entryPoint"))
      THEN BuildField(config, "entryPoint") ELSE "cli.js"

\* path.basename(entryPoint, '.js')
Basename(entryPoint) ==
    CASE entryPoint = "cli.js"          -> "cli"
      [] entryPoint = "bin/codex.js"    -> "codex"
      [] entryPoint = "dist/index.js"   -> "index"
      [] entryPoint = "launcher-cli.js" -> "launcher-cli"

\* path.join(sourceDir, `${baseName}-windows-prepared.js` or `${baseName}-prepared.js`)
PreparedPath(config, platform) ==
    Basename(EntryPoint(config)) \o
      (IF platform = "windows" THEN "-windows-prepared.js" ELSE "-prepared.js")

\* A source text, as the sequence of its parts: a shebang line, a
\* 'use strict' directive, the blocks the builder inserts, and the tool's
\* own code.  The tool's code records what the patches look for in it.
Shebang   == [kind |-> "shebang"]
UseStrict == [kind |-> "use strict"]

\* The tool's code: the prefix of its process.env.<PREFIX>_ENTRYPOINT="cli"
\* statement (undefined without one), the statements the builder put after
\* it, whether it has POSIX forms (import.meta.url, "/dev/null", ...), and
\* its shell check ("throws", "detects", "none").
Body(entrypoint, marks, posix, shellCheck) ==
    [kind |-> "body", entrypoint |-> entrypoint, marks |-> marks, posix |-> posix,
     shellCheck |-> shellCheck]

\* The files addEmbeddedImports looks for in sourceDir.
EmbeddableFiles ==
    {"yoga.wasm", "vendor/ripgrep/arm64-darwin/rg", "vendor/ripgrep/arm64-linux/rg",
     "vendor/ripgrep/x64-darwin/rg", "vendor/ripgrep/x64-linux/rg",
     "vendor/ripgrep/x64-win32/rg.exe"}

EmbeddedFile == [kind |-> "binary"]

\* The blocks the builder inserts.
EmbeddedCode(imports) == [kind |-> "embeddedCode", imports |-> imports]
WindowsHeader(binaryName) == [kind |-> "windowsHeader", binaryName |-> binaryName]
SHELL_DETECTION_CODE == [kind |-> "SHELL_DETECTION_CODE"]

\* content.match(/^#!.*\n/)
HasShebang(content) == Len(content) > 0 /\ content[1] = Shebang

\* shebangMatch ? shebang + block + rest : block + content
InsertAfterShebang(content, block) ==
    IF HasShebang(content) THEN <<Shebang, block>> \o Tail(content)
    ELSE <<block>> \o content

\* The entrypointPatterns loop: the ENTRYPOINT statement (any prefix
\* matches the last pattern) becomes the configured prefix's, followed by
\* the mark.
MarkEntrypoint(body, envPrefix, mark) ==
    IF body.entrypoint = Undefined THEN body
    ELSE [body EXCEPT !.entrypoint = envPrefix,
                      !.marks = <<envPrefix \o mark>> \o @]

\* addEmbeddedImports(content, sourceDir)
addEmbeddedImports(content, files) ==
    InsertAfterShebang(content, EmbeddedCode(EmbeddableFiles \cap DOMAIN files))

\* applyWindowsPatches(content, toolConfig)
applyWindowsPatches(content, config) ==
    LET binaryName == IF Truthy(BuildField(config, "binaryName"))
                        THEN BuildField(config, "binaryName") ELSE "cli-tool"
        envPrefix  == IF Truthy(BuildField(config, "envPrefix"))
                        THEN BuildField(config, "envPrefix") ELSE "CLI_TOOL"
        Patch(body) == MarkEntrypoint([body EXCEPT !.posix = FALSE], envPrefix,
                                      "_WINDOWS_EXECUTABLE")
        headed == InsertAfterShebang(content, WindowsHeader(binaryName))
    IN [i \in DOMAIN headed |->
          IF headed[i].kind = "body" THEN Patch(headed[i]) ELSE headed[i]]

\* applyCommonPatches(content, toolConfig)
applyCommonPatches(content, config) ==
    LET envPrefix == IF Truthy(BuildField(config, "envPrefix"))
                       THEN BuildField(config, "envPrefix") ELSE "CLI_TOOL"
        stripped  == IF HasShebang(content) THEN Tail(content) ELSE content
        marked    == [i \in DOMAIN stripped |->
                         IF stripped[i].kind = "body"
                           THEN MarkEntrypoint(stripped[i], envPrefix, "_BUNDLED")
                           ELSE stripped[i]]
        injected  == IF Len(marked) > 0 /\ marked[1] = UseStrict
                       THEN <<UseStrict, SHELL_DETECTION_CODE>> \o Tail(marked)
                       ELSE <<SHELL_DETECTION_CODE>> \o marked
        Bypass(body) == IF body.shellCheck = "throws"
                          THEN [body EXCEPT !.shellCheck = "detects"] ELSE body
    IN [i \in DOMAIN injected |->
          IF injected[i].kind = "body" THEN Bypass(injected[i]) ELSE injected[i]]

\* (mutant) the common patches applied before the Windows patches.
PatchPipelineCommonFirst(cliContent, files, config, platform) ==
    LET embedded == addEmbeddedImports(cliContent, files)
        common   == applyCommonPatches(embedded, config)
    IN IF platform = "windows" THEN applyWindowsPatches(common, config) ELSE common

\* The prepared text: the entry point's text through addEmbeddedImports,
\* applyWindowsPatches (windows only) and applyCommonPatches.
PatchPipeline(cliContent, files, config, platform) ==
    LET embedded == addEmbeddedImports(cliContent, files)
        patched  == IF platform = "windows"
                      THEN applyWindowsPatches(embedded, config) ELSE embedded
    IN applyCommonPatches(patched, config)

PreparedContent(files, config, platform) ==
    PatchPipeline(files[EntryPoint(config)], files, config, platform)

\* An entry point as the package ships it.
SourceContent == <<Shebang, Body("CLAUDE_CODE", <<>>, TRUE, "throws")>>

\* A prepareSource that writes the prepared file before it looks for the
\* entry point.
prepareSourceWritesFirst(files, config, platform) ==
    [threw |-> EntryPoint(config) \notin DOMAIN files,
     message |-> "CLI source not found", path |-> PreparedPath(config, platform),
     files |-> (PreparedPath(config, platform)
                  :> (IF EntryPoint(config) \in DOMAIN files
                        THEN PreparedContent(files, config, platform)
                        ELSE <<SHELL_DETECTION_CODE>>)) @@ files]

\* A prepareSource that patches the prepared file of an earlier call when
\* there is one.
prepareSourceFromPrepared(files, config, platform) ==
    IF EntryPoint(config) \notin DOMAIN files
      THEN [threw |-> TRUE, message |-> "CLI source not found", files |-> files]
      ELSE [threw |-> FALSE, path |-> PreparedPath(config, platform),
            files |-> (PreparedPath(config, platform)
                         :> PatchPipeline(
                              IF PreparedPath(config, platform) \in DOMAIN files
                                THEN files[PreparedPath(config, platform)]
                                ELSE files[EntryPoint(config)],
                              files, config, platform)) @@ files]

\* prepareSource(sourceDir, targetPlatform, {toolConfig}) on the files of
\* sourceDir: throws when the entry point is missing, and otherwise writes
\* the prepared file and returns its path.
prepareSource(files, config, platform) ==
    IF EntryPoint(config) \notin DOMAIN files
      THEN [threw |-> TRUE, message |-> "CLI source not found", files |-> files]
      ELSE [threw |-> FALSE, path |-> PreparedPath(config, platform),
            files |-> (PreparedPath(config, platform)
                         :> PreparedContent(files, config, platform)) @@ files]

\* The onStatus messages of a prepareSource call, in the order of the
\* calls: none when the entry point is missing (the call throws first).
OnStatus(files, config, platform) ==
    IF EntryPoint(config) \notin DOMAIN files THEN <<>>
    ELSE <<"Reading CLI source", "Adding embedded file imports">>
         \o (IF platform = "windows" THEN <<"Applying Windows-specific patches">>
             ELSE <<>>)
         \o <<"Applying common patches", "Prepared source written">>

\* prepareSource is called on sourceDir; `repeated` says that the call
\* before it had the same arguments and returned.
CallPrepareSource(config, platform) ==
    LET prepared == prepareSource(srcFiles, config, platform)
    IN /\ srcFiles' = prepared.files
       /\ call' = [fn |-> "prepareSource", toolConfig |-> config, platform |-> platform,
                   threw |-> prepared.threw,
                   path |-> IF prepared.threw THEN Undefined ELSE prepared.path,
                   status |-> OnStatus(srcFiles, config, platform),
                   repeated |-> /\ call.fn = "prepareSource"
                                /\ call.toolConfig = config
                                /\ call.platform = platform
                                /\ ~call.threw]
       /\ UNCHANGED <<targetIds, toolConfig, idx, results, btPc, btsDone, bunAvailable,
                      outDirs, proc, attempted, started, cacheVars, dlVars, host>>

\* What every object inherits from Object.prototype.
ObjectPrototypeKeys ==
    {"constructor", "__proto__", "toString", "toLocaleString", "valueOf",
     "hasOwnProperty", "isPrototypeOf", "propertyIsEnumerable"}

\* obj[key] of an object made by {}: an own property, or an inherited one
\* (a function, or Object.prototype: truthy, with none of a target's
\* fields), or undefined.
Lookup(obj, key) ==
    IF key \in DOMAIN obj THEN [truthy |-> TRUE, value |-> obj[key]]
    ELSE IF key \in ObjectPrototypeKeys THEN [truthy |-> TRUE, value |-> <<>>]
    ELSE [truthy |-> FALSE, value |-> <<>>]

\* target.<key>
Field(target, key) == IF key \in DOMAIN target THEN target[key] ELSE Undefined

\* The targets buildTarget looks the id up in.
TargetsFor(config) ==
    IF config # Undefined
      THEN generateBuildTargets(IF Truthy(toolId) THEN toolId ELSE "claude-code", config)
      ELSE BUILD_TARGETS

\* const target = targets[targetId]
TargetOf(id) == Lookup(TargetsFor(toolConfig), id)

NoProc == [state |-> "none"]

Failure(id, message, stderr) ==
    [success |-> FALSE, target |-> id, error |-> message, stderr |-> stderr]

\* A catch that lets the error through: buildTargets rejects, with no
\* entry for the target.
CatchErrorRethrows(id, message, stderr) ==
    /\ btsDone' = TRUE
    /\ btPc' = "idle"
    /\ UNCHANGED <<results, idx>>

\* buildTargets' catch: the error becomes the target's result, and the loop
\* goes on.
CatchError(id, message, stderr) ==
    /\ results' = Append(results, Failure(id, message, stderr))
    /\ idx' = idx + 1
    /\ btPc' = "idle"
    /\ UNCHANGED btsDone

\* buildTargets calls buildTarget(targetId, ...) for the next id: the
\* target lookup, hasBun(), and prepareSource (which does not wait for
\* anything).
BuildTargetStart ==
    LET id       == targetIds[idx]
        target   == TargetOf(id)
        prepared == prepareSource(srcFiles, toolConfig, Field(target.value, "platform"))
    IN
    /\ btPc = "idle"
    /\ ~btsDone
    /\ idx <= Len(targetIds)
    /\ attempted' = Append(attempted, id)
    /\ IF ~target.truthy
         THEN /\ CatchError(id, "Unknown target: " \o id, 0)
              /\ UNCHANGED srcFiles
       ELSE IF ~bunAvailable
         THEN /\ CatchError(id, "Bun is required to build executables", 0)
              /\ UNCHANGED srcFiles
       ELSE /\ srcFiles' = prepared.files
            /\ IF prepared.threw
                 THEN CatchError(id, prepared.message, 0)
                 ELSE /\ btPc' = "prepared"
                      /\ UNCHANGED <<results, idx, btsDone>>
    /\ UNCHANGED <<targetIds, toolConfig, bunAvailable, outDirs, proc, started,
                   cacheVars, dlVars, pureVars>>

\* After await prepareSource: path.join(outputDir, target.platform),
\* mkdirSync(platformDir), findBunPath(), spawn.
\* spawned = FALSE: the process could not be started ('error' -> reject).
BuildTargetSpawn(spawned) ==
    LET id       == targetIds[idx]
        target   == TargetOf(id).value
        platform == Field(target, "platform")
        source   == PreparedPath(toolConfig, platform)
    IN
    /\ btPc = "prepared"
    /\ IF platform = Undefined
         THEN /\ CatchError(id, "The path argument must be of type string", 0)
              /\ UNCHANGED <<outDirs, proc, started>>
       ELSE /\ outDirs' = outDirs \cup {platform}
            /\ IF ~bunAvailable
                 THEN /\ CatchError(id, "Bun not found", 0)
                      /\ UNCHANGED <<proc, started>>
               ELSE IF ~spawned
                 THEN /\ CatchError(id, "spawn error", 0)
                      /\ UNCHANGED <<proc, started>>
               ELSE /\ proc' = [state |-> "running", target |-> id, source |-> source,
                                text |-> srcFiles[source], emitted |-> 0,
                                captured |-> 0, code |-> 0, output |-> FALSE]
                    /\ started' = started + 1
                    /\ btPc' = "await"
                    /\ UNCHANGED <<results, idx, btsDone>>
    /\ UNCHANGED <<targetIds, toolConfig, bunAvailable, srcFiles, attempted,
                   cacheVars, dlVars, pureVars>>

\* The compiler writes a chunk to stderr.
CompilerWritesStderr ==
    /\ proc.state = "running"
    /\ proc.emitted < MaxStderr
    /\ proc' = [proc EXCEPT !.emitted = @ + 1]
    /\ UNCHANGED <<targetIds, toolConfig, idx, results, btPc, btsDone, bunAvailable,
                   srcFiles, outDirs, attempted, started, cacheVars, dlVars, pureVars>>

\* bunProcess.stderr 'data': stderr += data.
StderrData ==
    /\ proc.state \in {"running", "exited"}
    /\ proc.captured < proc.emitted
    /\ proc' = [proc EXCEPT !.captured = @ + 1]
    /\ UNCHANGED <<targetIds, toolConfig, idx, results, btPc, btsDone, bunAvailable,
                   srcFiles, outDirs, attempted, started, cacheVars, dlVars, pureVars>>

\* The compiler process ends with an exit code; it may have written the
\* executable.
CompilerExits(code, output) ==
    /\ proc.state = "running"
    /\ proc' = [proc EXCEPT !.state = "exited", !.code = code, !.output = output]
    /\ UNCHANGED <<targetIds, toolConfig, idx, results, btPc, btsDone, bunAvailable,
                   srcFiles, outDirs, attempted, started, cacheVars, dlVars, pureVars>>

\* A promise settled as soon as the process runs.
ProcessOverOnSpawn == proc.state \in {"running", "exited"}

\* 'close' is emitted once the process has ended ...
ProcessOver == proc.state = "exited"

\* A handler on 'exit', which does not wait for the stdio streams.
StdioClosedOnExit == TRUE

\* ... and its stdio streams have been read to the end and closed.
StdioClosed == proc.captured = proc.emitted

\* The exit code buildTarget takes for success.
IsSuccess(code) == code = 0

\* bunProcess 'close': resolve with the result or reject with the captured
\* stderr; buildTargets pushes the result and goes on.
ProcessClose ==
    LET id     == targetIds[idx]
        target == TargetOf(id).value
    IN
    /\ btPc = "await"
    /\ ProcessOver
    /\ StdioClosed
    /\ IF IsSuccess(proc.code)
         THEN /\ results' = Append(results,
                    [success |-> TRUE, target |-> id,
                     toolId |-> IF Truthy(toolId) THEN toolId ELSE "claude-code",
                     output |-> target.platform \o "/" \o target.output,
                     size |-> IF proc.output THEN 1 ELSE 0])
              /\ idx' = idx + 1
              /\ btPc' = "idle"
              /\ UNCHANGED btsDone
         ELSE CatchError(id, "Build failed for " \o id, proc.captured)
    /\ UNCHANGED <<targetIds, toolConfig, bunAvailable, srcFiles, outDirs, proc,
                   attempted, started, cacheVars, dlVars, pureVars>>

\* The loop is over: return results.
BuildTargetsReturn ==
    /\ btPc = "idle"
    /\ ~btsDone
    /\ idx > Len(targetIds)
    /\ btsDone' = TRUE
    /\ UNCHANGED <<targetIds, toolConfig, idx, results, btPc, bunAvailable, srcFiles,
                   outDirs, proc, attempted, started, cacheVars, dlVars, pureVars>>

\* Bun is installed or removed meanwhile. While buildTarget waits for the
\* compiler it does not look for Bun: a change then is seen as a change
\* made just after.
BunChanges ==
    /\ ~btsDone
    /\ btPc # "await"
    /\ bunAvailable' = ~bunAvailable
    /\ UNCHANGED <<targetIds, toolConfig, idx, results, btPc, btsDone, srcFiles, outDirs,
                   proc, attempted, started, cacheVars, dlVars, pureVars>>

(***************************************************************************)
(* Initial values of the three groups                                      *)
(***************************************************************************)
CacheIdle ==
    /\ npmPc = "idle"
    /\ npmArgs = NoArgs
    /\ npmInfo = NoInfo
    /\ npmResult = NoResult
    /\ chk = NoCheck
    /\ roundTrip = NoRoundTrip

\* An empty destination directory.
CacheInit ==
    /\ manifestFile = NoFile
    /\ fsDirs = [n \in DirNames |-> NoDir]
    /\ tarballs = [t \in TarballPaths |-> "absent"]
    /\ CacheIdle

DlInit ==
    /\ dlPc = "idle"
    /\ dlOutcome = "pending"
    /\ dlFile = NoDestFile
    /\ dlRecv = 0
    /\ dlIdle = 0
    /\ dlStale = FALSE
    /\ dlUnlink = FALSE
    /\ dlSeen = NotSeen

NoCall == [fn |-> "none"]

NoHost == Host("linux", {}, {})

PureInit == host = NoHost /\ call = NoCall

BuildInit ==
    /\ targetIds = <<>>
    /\ toolConfig = Undefined
    /\ idx = 1
    /\ results = <<>>
    /\ btPc = "idle"
    /\ btsDone = FALSE
    /\ bunAvailable = FALSE
    /\ srcFiles = <<>>
    /\ outDirs = {}
    /\ proc = NoProc
    /\ attempted = <<>>
    /\ started = 0

(***************************************************************************)
(* Spec: any sequence of downloadFromNpm and clearCache calls on one       *)
(* destination directory, starting empty.                                  *)
(***************************************************************************)
Init == CacheInit /\ DlInit /\ BuildInit /\ PureInit

Next ==
    \/ \E p \in DestPackages, v \in Versions \cup {Undefined}, f \in BOOLEAN :
          CallDownloadFromNpm(p, v, f)
    \/ GetInfoFails
    \/ \E latest \in Versions, s \in Shasums \cup {Undefined},
          t \in {TarballUrl, Undefined} : GetInfoAnswers(latest, s, t)
    \/ \E d \in Digests : DownloadResolves(d)
    \/ \E left \in {"absent", "partial"} \cup Digests : DownloadRejects(left)
    \/ VerifyChecksum
    \/ VerifyRejects
    \/ \E st \in {"absent", "partial", "complete"} : ExtractTarball(st)
    \/ \E written \in BOOLEAN, unlinked \in BOOLEAN : FinishDownload(written, unlinked)
    \/ clearCache

Spec == Init /\ [][Next]_vars

(***************************************************************************)
(* DownloadSpec: one downloadFile call                                     *)
(***************************************************************************)
DownloadInit == CacheInit /\ DlInit /\ BuildInit /\ PureInit

DownloadNext ==
    \/ CallDownloadFile
    \/ Tick
    \/ Timeout
    \/ RequestError
    \/ \E keepOpen \in BOOLEAN : RespondRedirect(keepOpen)
    \/ RespondNot200
    \/ Respond200
    \/ ReceiveChunk
    \/ WriteChunk
    \/ ResponseEnd
    \/ Finish
    \/ WriteError
    \/ UnlinkDone
    \/ StaleTimeout
    \/ Deliver

DownloadSpec == DownloadInit /\ [][DownloadNext]_vars

\* The event loop runs every handler that stays ready; time passes; a timer
\* that stays armed fires. The server owes nothing: no fairness on its
\* responses.
DownloadFairness ==
    /\ WF_vars(CallDownloadFile)
    /\ WF_vars(Tick)
    /\ WF_vars(Timeout)
    /\ WF_vars(WriteChunk)
    /\ WF_vars(Finish)
    /\ WF_vars(UnlinkDone)
    /\ WF_vars(StaleTimeout)
    /\ WF_vars(Deliver)

DownloadFairSpec == DownloadSpec /\ DownloadFairness

(***************************************************************************)
(* ManifestSpec: writeManifest, readManifest, checkIfUpToDate in a row, on *)
(* every manifest record and every state of the destination directory     *)
(***************************************************************************)
\* The records handed to writeManifest: those of downloadFromNpm (the
\* registry may publish no shasum) and of downloadShell / downloadTerminal
\* (no packageName).
ManifestRecords ==
    [packageName : Packages \cup {Undefined}, version : Versions,
     shasum : Shasums \cup {Undefined}, tarball : {TarballUrl},
     extractDir : {ExtractDirName}]

OlderManifest ==
    [packageName |-> "@openai/codex", version |-> "2.0.75", shasum |-> "cd34",
     tarball |-> TarballUrl, extractDir |-> ExtractDirName]

ManifestInit ==
    /\ manifestFile \in {NoFile, CorruptFile, JsonFile(JSONStringify(OlderManifest))}
    /\ fsDirs \in [DirNames -> {NoDir, Dir("complete", "@openai/codex", "2.0.75", "cd34")}]
    /\ tarballs = [t \in TarballPaths |-> "absent"]
    /\ CacheIdle
    /\ DlInit
    /\ BuildInit
    /\ PureInit

ManifestNext ==
    \E data \in ManifestRecords, written \in BOOLEAN : WriteThenRead(data, written)

ManifestSpec == ManifestInit /\ [][ManifestNext]_vars

(***************************************************************************)
(* BuildSpec: one buildTargets(targetIds, sourceDir, outputDir, options)   *)
(***************************************************************************)
TargetLists == UNION { [1..n -> TargetInputs] : n \in 0..MaxTargets }

\* The source directory before the call: empty, or the package of one tool.
SourceDirs == { <<>> } \cup { EntryPoint(config) :> SourceContent : config \in ConfigInputs }

BuildSpecInit ==
    /\ targetIds \in TargetLists
    /\ toolConfig \in ConfigInputs
    /\ bunAvailable \in BOOLEAN
    /\ srcFiles \in SourceDirs
    /\ idx = 1
    /\ results = <<>>
    /\ btPc = "idle"
    /\ btsDone = FALSE
    /\ outDirs = {}
    /\ proc = NoProc
    /\ attempted = <<>>
    /\ started = 0
    /\ CacheInit
    /\ DlInit
    /\ PureInit

BuildNext ==
    \/ BuildTargetStart
    \/ \E spawned \in BOOLEAN : BuildTargetSpawn(spawned)
    \/ CompilerWritesStderr
    \/ StderrData
    \/ \E code \in ExitCodes, output \in BOOLEAN : CompilerExits(code, output)
    \/ ProcessClose
    \/ BuildTargetsReturn
    \/ BunChanges

BuildSpec == BuildSpecInit /\ [][BuildNext]_vars

(***************************************************************************)
(* CheckSpec: checkIfUpToDate on every manifest file and directory state   *)
(***************************************************************************)
\* The manifests a file may hold: those downloadFromNpm writes, those with
\* another extraction directory, those without a shasum, and those
\* downloadShell / downloadTerminal write (no packageName).
ManifestObjects ==
    { JSONStringify([packageName |-> p, version |-> v, shasum |-> s,
                     tarball |-> TarballUrl, extractDir |-> e]) :
        p \in Packages \cup {Undefined}, v \in Versions,
        s \in Shasums \cup {Undefined}, e \in DirNames }

ManifestFiles == {NoFile, CorruptFile} \cup { JsonFile(o) : o \in ManifestObjects }

SomeDir == Dir("complete", "@anthropic-ai/claude-code", "2.0.75", "ab12")

CheckInit ==
    /\ manifestFile \in ManifestFiles
    /\ fsDirs \in [DirNames -> {NoDir, SomeDir}]
    /\ tarballs = [t \in TarballPaths |-> "absent"]
    /\ CacheIdle
    /\ DlInit
    /\ BuildInit
    /\ PureInit

CheckNext ==
    \E p \in Packages, v \in Versions, s \in Shasums \cup {Undefined} :
        CallCheckIfUpToDate(p, v, s)

CheckSpec == CheckInit /\ [][CheckNext]_vars

(***************************************************************************)
(* The specification of the builder's functions of their arguments and of   *)
(* the host: each is called with any input.                                *)
(***************************************************************************)
\* Tool ids: the registry's, and one the registry does not know.
ToolIds == DOMAIN CLI_REGISTRY \cup {"mytool"}

\* Tool configurations: a registry entry, or none.
ToolConfigs == DOMAIN CLI_REGISTRY \cup {Undefined}

\* Environments: each variable unset, empty or set.
Environments ==
    [CLAUDE_SHELL : {Undefined, "", "/usr/bin/fish"},
     SHELL : {Undefined, "", "/usr/bin/fish", "/bin/zsh"}]

\* Windows hosts with any of the shells on the path; other hosts with any
\* of the paths present.  (Neither reads what the other probes.)
Range(seq) == { seq[i] : i \in DOMAIN seq }

Hosts ==
    { Host("win32", onPath, {}) : onPath \in SUBSET Range(winShells) }
    \cup { Host(processPlatform, {}, existing) :
             processPlatform \in {"linux", "darwin"},
             existing \in SUBSET (Range(unixShells) \cup {TermuxBash, "/usr/bin/fish"}) }

FunctionsInit ==
    /\ CacheInit /\ DlInit /\ BuildInit
    /\ host \in Hosts
    /\ call = NoCall

FunctionsNext ==
    \/ \E id \in ToolIds, config \in ToolConfigs : CallGenerateBuildTargets(id, config)
    \/ \E processPlatform \in HostPlatforms, processArch \in HostArchs :
          CallGetCurrentTarget(processPlatform, processArch)
    \/ \E env \in Environments : CallDetectShell(env)

FunctionsSpec == FunctionsInit /\ [][FunctionsNext]_vars

\* cleanBuildArtifacts(sourceDir): the listed artifacts that exist are
\* removed, files by unlinkSync and directories by rmSync.
BuildArtifacts ==
    {"cli-prepared.js", "cli-windows-prepared.js", "cli-native-bundled.js",
     ".windows-build-temp"}

cleanBuildArtifacts(files) ==
    [f \in DOMAIN files \ BuildArtifacts |-> files[f]]

\* cleanBuildArtifacts is called on sourceDir.
CallCleanBuildArtifacts ==
    /\ srcFiles' = cleanBuildArtifacts(srcFiles)
    /\ call' = [fn |-> "cleanBuildArtifacts", before |-> DOMAIN srcFiles]
    /\ UNCHANGED <<targetIds, toolConfig, idx, results, btPc, btsDone, bunAvailable,
                   outDirs, proc, attempted, started, cacheVars, dlVars, host>>

(***************************************************************************)
(* PrepareSpec: prepareSource is called again and again on one source      *)
(* directory.                                                              *)
(***************************************************************************)
\* Entry points as packages ship them: with or without a shebang line and
\* a 'use strict' directive, with or without the statements the patches
\* look for, and with none of the builder's blocks.
PristineContents ==
    { (IF shebang THEN <<Shebang>> ELSE <<>>)
        \o (IF strict THEN <<UseStrict>> ELSE <<>>)
        \o <<Body(entrypoint, <<>>, posix, shellCheck)>> :
        shebang \in BOOLEAN, strict \in BOOLEAN,
        entrypoint \in {Undefined, "CLAUDE_CODE", "CODEX"},
        posix \in BOOLEAN, shellCheck \in {"throws", "none"} }

\* The target platforms prepareSource is called with.
PreparePlatforms == {"windows", "linux", "android"}

\* A prepared file an earlier build of an older package left behind.
StalePrepared(config) ==
    PreparedPath(config, "linux")
      :> PatchPipeline(<<Body(Undefined, <<>>, TRUE, "none")>>, <<>>, config, "linux")

\* The source directory: the package of one tool, with any of two files
\* to embed, and with or without a prepared file of an earlier build.
PrepareDirs ==
    { (EntryPoint(config) :> content)
        @@ [f \in embedded |-> EmbeddedFile]
        @@ (IF stale THEN StalePrepared(config) ELSE <<>>) :
        config \in ConfigInputs, content \in PristineContents,
        embedded \in SUBSET {"yoga.wasm", "vendor/ripgrep/x64-linux/rg"},
        stale \in BOOLEAN }

PrepareInit ==
    /\ CacheInit /\ DlInit /\ PureInit
    /\ targetIds = <<>>
    /\ toolConfig = Undefined
    /\ bunAvailable = FALSE
    /\ srcFiles \in PrepareDirs
    /\ idx = 1
    /\ results = <<>>
    /\ btPc = "idle"
    /\ btsDone = FALSE
    /\ outDirs = {}
    /\ proc = NoProc
    /\ attempted = <<>>
    /\ started = 0

PrepareNext ==
    \/ \E config \in ConfigInputs, platform \in PreparePlatforms :
          CallPrepareSource(config, platform)
    \/ CallCleanBuildArtifacts

PrepareSpec == PrepareInit /\ [][PrepareNext]_vars

(***************************************************************************)
(* extractTarball(tarballPath, destDir): one call                          *)
(***************************************************************************)
\* The position of the last '/' of a path, 0 without one.
RECURSIVE LastSlash(_, _)
LastSlash(p, i) ==
    IF i = 0 THEN 0
    ELSE IF SubSeq(p, i, i) = "/" THEN i
    ELSE LastSlash(p, i - 1)

\* path.dirname and path.basename(p, '.js') of a relative path: the
\* directory ("" for the base directory itself, else with its trailing
\* '/'), and the file name with '.js' taken off.
DirOf(p) == SubSeq(p, 1, LastSlash(p, Len(p)))
BaseOf(p) == SubSeq(p, LastSlash(p, Len(p)) + 1, Len(p) - 3)

\* name.endsWith('/')
EndsWithSlash(name) == Len(name) > 0 /\ SubSeq(name, Len(name), Len(name)) = "/"

\* The size of a tar block.
BlockSize == 512
\* Most members of an archive.
MaxEntries == 2

\* Members of an archive: name, size as parseInt(sizeOctal, 8) reads it,
\* type flag (53 '5' directory, 48 '0' and 0 regular file, 50 '2' symbolic
\* link, 120 'x' extended header).  The last one has a negative size field.
TarEntry(name, size, typeFlag) == [name |-> name, size |-> size, typeFlag |-> typeFlag]

TarEntries ==
    { TarEntry("package/", 0, 53),
      TarEntry("package/cli.js", 513, 48),
      TarEntry("package/a.txt", 1, 0),
      TarEntry("package/b.bin", 512, 48),
      TarEntry("package/empty", 0, 48),
      TarEntry("package/link", 0, 50),
      TarEntry("package/pax", 513, 120),
      TarEntry("package/lib/", 0, 48),
      TarEntry("package/evil", -600, 48) }

\* Math.ceil(size / 512)
CeilBlocks(size) == -((-size) \div BlockSize)

ZeroBlock == [kind |-> "zero"]
DataBlock == [kind |-> "data"]
HeaderBlock(entry) == [kind |-> "header", entry |-> entry]

\* The blocks of an archive: for each member its header and its body,
\* rounded up to whole blocks.
RECURSIVE BlocksOf(_)
BlocksOf(entries) ==
    IF entries = <<>> THEN <<>>
    ELSE <<HeaderBlock(Head(entries))>>
         \o [i \in 1 .. (IF Head(entries).size > 0 THEN CeilBlocks(Head(entries).size)
                           ELSE 0) |-> DataBlock]
         \o BlocksOf(Tail(entries))

\* The header fields read from a block: a body block read as a header
\* gives no name.
HeaderOf(block) ==
    IF block.kind = "header" THEN block.entry ELSE TarEntry("", 0, 0)

\* The length of buffer.slice(start, start + size) of a buffer of len
\* bytes: a negative end counts from the end of the buffer.
SliceLength(len, start, size) ==
    LET end     == start + size
        fromEnd == IF end < 0 THEN (IF len + end < 0 THEN 0 ELSE len + end) ELSE end
        clipped == IF fromEnd > len THEN len ELSE fromEnd
    IN IF clipped > start THEN clipped - start ELSE 0

\* (mutant) the Windows fallback is tried on every host.
NextStrategyAnyHost(strategy, isWindows) ==
    IF strategy = "tar" THEN "powershell" ELSE "node"

\* The strategy tried after a failed one: the PowerShell fallback after
\* tar on Windows, the in-process decoder otherwise.
NextStrategy(strategy, isWindows) ==
    IF strategy = "tar" /\ isWindows THEN "powershell" ELSE "node"

\* extractTarball is called on an archive: destDir is made, and
\* execSync('tar -xzf ...') is next.
CallExtractTarball(entries, trailer) ==
    /\ call = [fn |-> "none"]
    /\ call' = [fn |-> "extractTarball", pc |-> "tar",
                isWindows |-> (host.platform = "win32"),
                entries |-> entries,
                buffer |-> BlocksOf(entries) \o [i \in 1 .. trailer |-> ZeroBlock],
                tried |-> <<>>, failed |-> {}, offset |-> 0,
                files |-> <<>>]
    /\ UNCHANGED <<cacheVars, dlVars, buildVars, host>>

\* execSync of tar or of powershell returns (the call returns destDir) or
\* throws (caught: the next strategy).
ExecSync(ok) ==
    /\ call.fn = "extractTarball"
    /\ call.pc \in {"tar", "powershell"}
    /\ call' = [call EXCEPT
                  !.tried = Append(@, call.pc),
                  !.failed = IF ok THEN @ ELSE @ \cup {call.pc},
                  !.pc = IF ok THEN "resolved"
                         ELSE NextStrategy(call.pc, call.isWindows)]
    /\ UNCHANGED <<cacheVars, dlVars, buildVars, host>>

\* The in-process decoder: gunzip emits 'error' (the promise rejects) or
\* 'end' (the tar reader starts on the buffer).
Gunzip(ok) ==
    /\ call.fn = "extractTarball"
    /\ call.pc = "node"
    /\ call' = [call EXCEPT
                  !.tried = Append(@, "node"),
                  !.failed = IF ok THEN @ ELSE @ \cup {"node"},
                  !.pc = IF ok THEN "reading" ELSE "rejected"]
    /\ UNCHANGED <<cacheVars, dlVars, buildVars, host>>

\* One pass of the loop `while (offset < buffer.length - 512)`: the loop
\* ends (resolve), or a header is read, its directory made or its file
\* written, and the offset moved past the header and the body.
ReadEntry ==
    LET len      == BlockSize * Len(call.buffer)
        block    == call.buffer[(call.offset \div BlockSize) + 1]
        header   == HeaderOf(block)
        name     == header.name
        body     == call.offset + BlockSize
        isDir    == header.typeFlag = 53 \/ EndsWithSlash(name)
        isFile   == ~isDir /\ header.typeFlag \in {0, 48}
        made     == IF name = "" THEN <<>>
                    ELSE IF isDir THEN name :> [kind |-> "directory"]
                    ELSE IF isFile
                      THEN (name :> [kind |-> "file",
                                     bytes |-> SliceLength(len, body, header.size)])
                           @@ (DirOf(name) :> [kind |-> "directory"])
                    ELSE <<>>
    IN
    /\ call.fn = "extractTarball"
    /\ call.pc = "reading"
    /\ IF ~(call.offset < len - BlockSize) \/ block = ZeroBlock
         THEN call' = [call EXCEPT !.pc = "resolved"]
         ELSE call' = [call EXCEPT
                         !.files = made @@ @,
                         !.offset = body + CeilBlocks(header.size) * BlockSize]
    /\ UNCHANGED <<cacheVars, dlVars, buildVars, host>>

\* fs.mkdirSync or fs.writeFileSync throws in the loop: the promise rejects.
ReadEntryThrows ==
    /\ call.fn = "extractTarball"
    /\ call.pc = "reading"
    /\ call.offset < BlockSize * Len(call.buffer) - BlockSize
    /\ LET header == HeaderOf(call.buffer[(call.offset \div BlockSize) + 1])
       IN /\ header.name # ""
          /\ header.typeFlag \in {0, 48, 53} \/ EndsWithSlash(header.name)
    /\ call' = [call EXCEPT !.pc = "rejected", !.failed = @ \cup {"node"}]
    /\ UNCHANGED <<cacheVars, dlVars, buildVars, host>>

\* Archives of up to MaxEntries members, with the two zero blocks that end
\* an archive or without them.
Archives == UNION { [1 .. n -> TarEntries] : n \in 0 .. MaxEntries }

ExtractInit ==
    /\ CacheInit /\ DlInit /\ BuildInit
    /\ host \in {Host("linux", {}, {}), Host("win32", {}, {})}
    /\ call = [fn |-> "none"]

ExtractNext ==
    \/ \E entries \in Archives, trailer \in {0, 2} : CallExtractTarball(entries, trailer)
    \/ \E ok \in BOOLEAN : ExecSync(ok)
    \/ \E ok \in BOOLEAN : Gunzip(ok)
    \/ ReadEntry
    \/ ReadEntryThrows

ExtractSpec == ExtractInit /\ [][ExtractNext]_vars

\* The loop runs on: no pass of it waits for anything.
ExtractFairness == WF_vars(ReadEntry)

ExtractFairSpec == ExtractSpec /\ ExtractFairness

(***************************************************************************)
(* PatchSpec: one patch stage is applied to an entry point's text, and     *)
(* then to its own output.                                                 *)
(***************************************************************************)
\* Most applications of one stage in a row.
MaxApply == 2

\* The stage of a call applied to a text.
ApplyStage(stage, content, files, config) ==
    CASE stage = "addEmbeddedImports"  -> addEmbeddedImports(content, files)
      [] stage = "applyWindowsPatches" -> applyWindowsPatches(content, config)
      [] stage = "applyCommonPatches"  -> applyCommonPatches(content, config)

\* A stage is called on a text.
CallStage(stage, content, files, config) ==
    /\ call' = [fn |-> stage, content |-> content, files |-> files,
                toolConfig |-> config, applied |-> 1,
                result |-> ApplyStage(stage, content, files, config)]
    /\ UNCHANGED <<cacheVars, dlVars, buildVars, host>>

\* The stage is called again, on what it returned.
StageAgain ==
    /\ call.fn \in {"addEmbeddedImports", "applyWindowsPatches", "applyCommonPatches"}
    /\ call.applied < MaxApply
    /\ call' = [call EXCEPT !.content = call.result,
                            !.applied = @ + 1,
                            !.result = ApplyStage(call.fn, call.result, call.files,
                                                  call.toolConfig)]
    /\ UNCHANGED <<cacheVars, dlVars, buildVars, host>>

\* The files to embed found in sourceDir.
EmbeddedSets ==
    { [f \in embedded |-> EmbeddedFile] :
        embedded \in SUBSET {"yoga.wasm", "vendor/ripgrep/x64-linux/rg"} }

PatchInit == CacheInit /\ DlInit /\ BuildInit /\ PureInit

PatchNext ==
    \/ \E content \in PristineContents, files \in EmbeddedSets :
          CallStage("addEmbeddedImports", content, files, Undefined)
    \/ \E content \in PristineContents, config \in ConfigInputs :
          CallStage("applyWindowsPatches", content, <<>>, config)
    \/ \E content \in PristineContents, config \in ConfigInputs :
          CallStage("applyCommonPatches", content, <<>>, config)
    \/ StageAgain

PatchSpec == PatchInit /\ [][PatchNext]_vars

(***************************************************************************)
(* The interactive application (scripts/test/test-multi-cli.cjs): the      *)
(* menus, the key press listener and the download and build actions.       *)
(* `call` holds the application: the `state` object, the number of         *)
(* 'keypress' listeners attached to stdin, and the action functions that   *)
(* have been called and have not returned.                                 *)
(***************************************************************************)
\* Most action functions that have not returned.
MaxRunning == 2

MenuItem(key, action, id) == [key |-> key, action |-> action, id |-> id]

MAIN_MENU ==
    << MenuItem("1", "launcher", Undefined),
       MenuItem("2", "download", Undefined),
       MenuItem("3", "build", Undefined),
       MenuItem("4", "selectTool", Undefined),
       MenuItem("5", "platforms", Undefined),
       MenuItem("6", "shells", Undefined),
       MenuItem("7", "terminals", Undefined),
       MenuItem("8", "secrets", Undefined),
       MenuItem("9", "sysinfo", Undefined),
       MenuItem("0", "settings", Undefined),
       MenuItem("h", "help", Undefined),
       MenuItem("q", "quit", Undefined) >>

TOOL_MENU ==
    << MenuItem("1", Undefined, "claude-code"),
       MenuItem("2", Undefined, "codex"),
       MenuItem("3", Undefined, "copilot"),
       MenuItem("4", Undefined, "gemini"),
       MenuItem("5", Undefined, "launcher"),
       MenuItem("b", "back", Undefined) >>

LAUNCHER_MENU ==
    << MenuItem("1", Undefined, "claude"),
       MenuItem("2", Undefined, "codex"),
       MenuItem("3", Undefined, "copilot"),
       MenuItem("4", Undefined, "gemini"),
       MenuItem("b", "back", Undefined) >>

\* The views handleSelect switches to from the main menu.
ViewActions ==
    {"launcher", "selectTool", "platforms", "shells", "terminals", "secrets",
     "sysinfo", "help", "settings"}

getCurrentMenu(app) ==
    CASE app.currentView = "selectTool" -> TOOL_MENU
      [] app.currentView = "launcher" -> LAUNCHER_MENU
      [] OTHER -> MAIN_MENU

\* menu.indexOf(menu.find(item => item.key === key)), -1 when there is none.
IndexOfKey(menu, key) ==
    LET found == {i \in DOMAIN menu : menu[i].key = key}
    IN IF found = {} THEN -1
       ELSE (CHOOSE i \in found : \A j \in found : i <= j) - 1

Min(a, b) == IF a <= b THEN a ELSE b
Max(a, b) == IF a >= b THEN a ELSE b

\* An action function that has been called: what it does, the tool whose
\* source directory core/<tool> it works on, the await it stands at, and
\* the listeners its waitForKey took off stdin.
Running(action, tool, pc, listeners) ==
    [action |-> action, tool |-> tool, pc |-> pc, listeners |-> listeners]

\* The await of an action function on the downloader or the builder.
InProgress(r) == r.pc \in {"downloadTool", "buildTarget"}

\* waitForKey, up to the promise it returns: every 'keypress' listener is
\* taken off stdin and kept for the 'data' handler.
waitForKey(app, action) ==
    [app EXCEPT !.keypress = 0,
                !.running = Append(@, Running(action, app.selectedTool,
                                              "waitForKey", app.keypress))]

\* downloadSource, up to its await of downloader.downloadTool.
downloadSource(app) ==
    [app EXCEPT !.running = Append(@, Running("download", app.selectedTool,
                                              "downloadTool", 0))]

\* buildExecutables, up to its first await: waitForKey when the source
\* directory or bun is missing (ready = FALSE), builder.buildTarget
\* otherwise.
buildExecutables(app, ready) ==
    IF ~ready THEN waitForKey(app, "build")
    ELSE [app EXCEPT !.running = Append(@, Running("build", app.selectedTool,
                                                   "buildTarget", 0))]

shutdown(app) == [app EXCEPT !.isRunning = FALSE, !.running = <<>>]

\* handleSelect, up to the first await of the action function it calls.
handleSelect(app, ready) ==
    LET menu == getCurrentMenu(app)
        item == menu[app.selectedMenu + 1]
    IN IF app.selectedMenu + 1 \notin DOMAIN menu THEN app
       ELSE IF item.action = "back"
         THEN [app EXCEPT !.currentView = "main", !.selectedMenu = 0]
       ELSE IF item.action = "quit" THEN shutdown(app)
       ELSE IF app.currentView = "main"
         THEN CASE item.action \in {"download", "forceDownload"} ->
                     downloadSource(app)
                [] item.action = "build" -> buildExecutables(app, ready)
                [] item.action \in ViewActions ->
                     [app EXCEPT !.currentView = item.action, !.selectedMenu = 0]
                [] OTHER -> app
       ELSE IF app.currentView = "selectTool" /\ item.id # Undefined
         THEN [app EXCEPT !.selectedTool = item.id, !.currentView = "main",
                          !.selectedMenu = 0]
       ELSE app

\* handleKeyPress, up to the first await of the action function it calls.
handleKeyPress(app, key, ready) ==
    LET menu == getCurrentMenu(app)
        keyItem == IndexOfKey(menu, key)
    IN IF key \in {"up", "k"}
         THEN [app EXCEPT !.selectedMenu = Max(0, @ - 1)]
       ELSE IF key \in {"down", "j"}
         THEN [app EXCEPT !.selectedMenu = Min(Len(menu) - 1, @ + 1)]
       ELSE IF key \in {"\r", "\n"} THEN handleSelect(app, ready)
       ELSE IF keyItem >= 0
         THEN handleSelect([app EXCEPT !.selectedMenu = keyItem], ready)
       ELSE IF key = "b" /\ app.currentView # "main"
         THEN [app EXCEPT !.currentView = "main", !.selectedMenu = 0]
       ELSE IF key = "?"
         THEN [app EXCEPT !.currentView = "help", !.selectedMenu = 0]
       ELSE IF key \in {"q", "ctrl-c"} THEN shutdown(app)
       ELSE app

\* main, once the listener is attached and the menu is rendered.
AppStarted ==
    [fn |-> "main", isRunning |-> TRUE, selectedMenu |-> 0,
     currentView |-> "main", selectedTool |-> "claude-code", keypress |-> 1,
     running |-> <<>>]

\* The keys pressed: the quick keys of the download, build and tool
\* selection items, Enter, down, back and quit.
Keys == {"2", "3", "4", "\r", "j", "b", "q"}

\* The keys pressed in each view: down only in the tool menu, and only
\* back and quit in a view other than the main and the tool menu.
Pressed(app, key) ==
    \/ app.currentView = "selectTool"
    \/ app.currentView = "main" /\ key # "j"
    \/ key \in {"b", "q"}

\* stdin emits 'keypress' while the listener of main is attached: the
\* listener calls handleKeyPress, and the emitter does not wait for the
\* promise the listener returns.
KeyPress(key, ready) ==
    /\ call.fn = "main"
    /\ call.isRunning
    /\ call.keypress > 0
    /\ Pressed(call, key)
    /\ Len(handleKeyPress(call, key, ready).running) <= MaxRunning
    /\ call' = handleKeyPress(call, key, ready)
    /\ UNCHANGED <<cacheVars, dlVars, buildVars, host>>

\* The promise of downloader.downloadTool or builder.buildTarget settles:
\* the action function reports the result and calls waitForKey.
ActionSettles(i) ==
    /\ call.fn = "main"
    /\ call.isRunning
    /\ i \in DOMAIN call.running
    /\ InProgress(call.running[i])
    /\ call' = [call EXCEPT
                  !.keypress = 0,
                  !.running[i] = [@ EXCEPT !.pc = "waitForKey",
                                           !.listeners = call.keypress]]
    /\ UNCHANGED <<cacheVars, dlVars, buildVars, host>>

RECURSIVE SumListeners(_)
SumListeners(rs) ==
    IF rs = <<>> THEN 0
    ELSE (IF rs[1].pc = "waitForKey" THEN rs[1].listeners ELSE 0)
         + SumListeners(Tail(rs))

\* stdin emits 'data' while no 'keypress' listener is attached: every
\* pending waitForKey puts back the listeners it took off and resolves,
\* and its action function renders the menu and returns.
AnyKey ==
    /\ call.fn = "main"
    /\ call.isRunning
    /\ \E i \in DOMAIN call.running : call.running[i].pc = "waitForKey"
    /\ call' = [call EXCEPT
                  !.keypress = @ + SumListeners(call.running),
                  !.running = SelectSeq(@, InProgress)]
    /\ UNCHANGED <<cacheVars, dlVars, buildVars, host>>

AppInit == CacheInit /\ DlInit /\ BuildInit /\ host = NoHost /\ call = AppStarted

AppNext ==
    \/ \E key \in Keys, ready \in BOOLEAN : KeyPress(key, ready)
    \/ \E i \in 1..MaxRunning : ActionSettles(i)
    \/ AnyKey

AppSpec == AppInit /\ [][AppNext]_vars

(***************************************************************************)
(* Claims                                                                  *)
(***************************************************************************)

\* The object in the manifest file (when the file holds JSON).
StoredManifest == JSONParse(manifestFile.text)

\* C1: checkIfUpToDate returns upToDate=true if and only if a readable
\* manifest exists, its package name equals packageName, its version equals
\* remoteVersion, a shasum is missing on either side or both are equal, and
\* the extraction directory exists; otherwise upToDate=false.
C1_UpToDateIffAllHold ==
    chk.called =>
      ( chk.verdict.upToDate
        <=> /\ manifestFile.kind = "json"
            /\ "packageName" \in DOMAIN StoredManifest
            /\ StoredManifest["packageName"] = chk.packageName
            /\ "version" \in DOMAIN StoredManifest
            /\ StoredManifest["version"] = chk.version
            /\ \/ "shasum" \notin DOMAIN StoredManifest
               \/ chk.shasum = Undefined
               \/ StoredManifest["shasum"] = chk.shasum
            /\ fsDirs[ExtractDirName].state # "absent" )

\* C1 witness: a check that answered upToDate=true with both shasums known.
C1_Witness ==
    /\ chk.called
    /\ chk.verdict.upToDate
    /\ chk.shasum # Undefined
    /\ "shasum" \in DOMAIN StoredManifest

\* C2: between calls, whenever checkIfUpToDate answers upToDate=true for
\* (package, version, shasum), the extraction directory holds the complete
\* extraction of that package version.
C2_UpToDateMeansCompleteExtraction ==
    npmPc = "idle" =>
      \A p \in Packages, v \in Versions, s \in Shasums \cup {Undefined} :
        checkIfUpToDate(manifestFile, fsDirs, p, v, s).upToDate
          => /\ fsDirs[ExtractDirName].state = "complete"
             /\ fsDirs[ExtractDirName].packageName = p
             /\ fsDirs[ExtractDirName].version = v

\* The digest of the downloaded tarball differs from the published shasum.
DigestDiffers ==
    /\ Truthy(npmInfo.shasum)
    /\ ToLowerCase(tarballs[tarballPath]) # ToLowerCase(npmInfo.shasum)

\* C3: when the digest of the downloaded tarball has been computed and
\* differs from the shasum the registry published, downloadFromNpm deletes
\* the tarball and throws the verification error at once (no retry: the call
\* is over), leaving manifest and extraction directory as they were; a
\* tarball whose digest differs is never extracted, and the manifest is
\* never written for one.
C3_MismatchIsFatal ==
    [][ /\ ( /\ npmPc = "verify"
             /\ npmPc' # "verify"
             /\ npmResult' # Threw("checksum read")
             /\ DigestDiffers )
           => /\ tarballs'[tarballPath] = "absent"
              /\ npmPc' = "idle"
              /\ npmResult' = Threw("Checksum verification failed")
              /\ manifestFile' = manifestFile
              /\ fsDirs' = fsDirs
        /\ (fsDirs' # fsDirs /\ npmPc # "idle") => ~DigestDiffers
        /\ (manifestFile' # manifestFile /\ npmPc # "idle") => ~DigestDiffers
      ]_vars

\* C3 witness: a call has just thrown the verification error.
C3_Witness ==
    /\ npmPc = "idle"
    /\ npmResult = Threw("Checksum verification failed")

\* C4: whenever downloadFile rejects, no file created or partially written
\* by the call is at destPath when the error reaches the caller.
C4_NoFileLeftOnReject ==
    (dlSeen.delivered /\ dlSeen.outcome # "resolved") => ~dlSeen.file.exists

\* C5: every downloadFile call eventually settles, and it resolves only
\* after the whole 200 body has been written to destPath.
C5_EveryCallSettles ==
    /\ [](dlOutcome = "resolved" => (dlFile.exists /\ dlFile.chunks = BodyLen))
    /\ (dlPc # "idle") ~> (dlOutcome # "pending")

\* C6: buildTargets never rejects and returns one result per requested
\* target id, in request order, result i carrying target id i; a failed
\* target yields success = FALSE with the error message, and every later
\* target is still attempted.
C6_OneResultPerTarget ==
    /\ Len(results) = idx - 1
    /\ \A i \in 1..Len(results) :
         /\ results[i].target = targetIds[i]
         /\ ~results[i].success => results[i].error # ""
    /\ btsDone =>
         /\ Len(results) = Len(targetIds)
         /\ attempted = targetIds

C6_Witness ==
    /\ btsDone
    /\ Len(targetIds) = 2
    /\ ~results[1].success
    /\ results[2].success

\* C7: during buildTargets at most one target is prepared or compiled at a
\* time: while a compiler process runs no other target is started, no
\* compiler is spawned, and no file of the source directory (the prepared
\* file it reads among them) is written.
C7_OneTargetAtATime ==
    [][proc.state = "running" =>
         /\ btPc = "await"
         /\ proc.target = targetIds[idx]
         /\ attempted' = attempted
         /\ started' = started
         /\ srcFiles' = srcFiles]_vars

C7_Witness ==
    /\ proc.state = "running"
    /\ idx = 2
    /\ results[1].success
    /\ targetIds[1] # targetIds[2]
    /\ BUILD_TARGETS[targetIds[1]].platform = BUILD_TARGETS[targetIds[2]].platform

Unrecognized(id) == id \notin DOMAIN BUILD_TARGET_TEMPLATES

\* C8: buildTarget called with an unrecognized target id, or while no
\* compiler is available, fails at once and without side effect: no
\* prepared file is written, no output directory created, no compiler
\* started.
C8_FailsBeforeSideEffects ==
    [][(attempted' # attempted /\ (Unrecognized(targetIds[idx]) \/ ~bunAvailable)) =>
         /\ Len(results') = Len(results) + 1
         /\ ~results'[Len(results')].success
         /\ srcFiles' = srcFiles
         /\ outDirs' = outDirs
         /\ started' = started]_vars

\* C9: once the compiler has been started, buildTarget resolves with a
\* success result (target id, tool id, output path, size) iff the exit code
\* is 0, and for any other exit rejects with an error that names the target
\* id and carries all the stderr the process wrote.
C9_SuccessIffExitZero ==
    [][(btPc = "await" /\ btPc' # "await") =>
         LET r == results'[Len(results')] IN
         /\ Len(results') = Len(results) + 1
         /\ r.success <=> proc.code = 0
         /\ r.success =>
              /\ r.target = proc.target
              /\ r.toolId = (IF toolConfig = Undefined THEN "claude-code" ELSE toolConfig)
              /\ r.output = BUILD_TARGETS[proc.target].platform \o "/" \o
                            (IF toolConfig = Undefined THEN "claude-code" ELSE toolConfig)
                            \o "-" \o proc.target
                            \o BUILD_TARGET_TEMPLATES[proc.target].extension
         /\ ~r.success =>
              /\ r.error = "Build failed for " \o proc.target
              /\ r.stderr = proc.emitted]_vars

C9_Witness ==
    /\ proc.state = "exited"
    /\ proc.code # 0
    /\ proc.emitted > 0
    /\ btPc = "idle"
    /\ Len(results) = 1
    /\ results[1].stderr = proc.emitted

\* C10: prepareSource on a source directory without the configured entry
\* point (cli.js when there is no tool configuration) raises an error and
\* creates or modifies no file.
C10_MissingEntryPointWritesNothing ==
    [][(/\ attempted' # attempted
        /\ TargetOf(targetIds[idx]).truthy
        /\ bunAvailable
        /\ (IF toolConfig = Undefined THEN "cli.js"
            ELSE CLI_REGISTRY[toolConfig].build.entryPoint) \notin DOMAIN srcFiles) =>
         /\ srcFiles' = srcFiles
         /\ Len(results') = Len(results) + 1
         /\ results'[Len(results')].error = "CLI source not found"]_vars

C10_Witness ==
    /\ toolConfig = Undefined
    /\ "bin/codex.js" \in DOMAIN srcFiles
    /\ Len(results) = 1
    /\ results[1].error = "CLI source not found"
    /\ DOMAIN srcFiles = {"bin/codex.js"}

\* The conditions checkIfUpToDate tests, in the order of the claim: the
\* number of the first that fails for the checked arguments, 6 when none does.
FirstFailing ==
    IF manifestFile.kind # "json" THEN 1
    ELSE IF Get(StoredManifest, "packageName") # chk.packageName THEN 2
    ELSE IF Get(StoredManifest, "version") # chk.version THEN 3
    ELSE IF /\ Get(StoredManifest, "shasum") # Undefined
            /\ chk.shasum # Undefined
            /\ Get(StoredManifest, "shasum") # chk.shasum THEN 4
    ELSE IF fsDirs[ExtractDirName].state = "absent" THEN 5
    ELSE 6

ReasonOf ==
    <<"No local manifest found", "Different package", "Version mismatch",
      "Checksum mismatch", "Extracted files missing", "Local version matches remote">>

\* C11: checkIfUpToDate tests manifest, package name, version, shasum,
\* extraction directory in this order and reports the reason of the first
\* that fails; the six reasons are pairwise distinct; a manifest of the
\* right name and another version gives upToDate = FALSE with the version
\* mismatch reason, whatever the shasum and the directory.
C11_ReasonOfFirstFailure ==
    chk.called =>
      /\ chk.verdict.reason[1] = ReasonOf[FirstFailing]
      /\ chk.verdict.upToDate <=> FirstFailing = 6
      /\ \A i, j \in 1..6 : ReasonOf[i] = ReasonOf[j] => i = j
      /\ ( /\ manifestFile.kind = "json"
           /\ Get(StoredManifest, "packageName") = chk.packageName
           /\ Get(StoredManifest, "version") # chk.version )
         => /\ ~chk.verdict.upToDate
            /\ chk.verdict.reason =
                 <<"Version mismatch", StoredManifest["version"], chk.version>>

\* C11 witness: the versions differ (2.0.75 against 2.0.76), and so do the
\* shasums, and the directory is missing: the reason is the version's.
C11_Witness ==
    /\ chk.called
    /\ manifestFile.kind = "json"
    /\ Get(StoredManifest, "packageName") = chk.packageName
    /\ Get(StoredManifest, "version") = "2.0.75"
    /\ chk.version = "2.0.76"
    /\ Get(StoredManifest, "shasum") = "ab12"
    /\ chk.shasum = "cd34"
    /\ fsDirs[ExtractDirName].state = "absent"
    /\ chk.verdict.reason[1] = "Version mismatch"

C13_CorruptIsMissing ==
    (chk.called /\ manifestFile = CorruptFile) =>
      /\ readManifest(manifestFile) = readManifest(NoFile)
      /\ readManifest(manifestFile).isNull
      /\ ~chk.verdict.upToDate
      /\ chk.verdict =
           checkIfUpToDate(NoFile, fsDirs, chk.packageName, chk.version, chk.shasum)
      /\ chk.verdict.reason = <<"No local manifest found">>

\* C13 witness: a check on a corrupt manifest beside an existing package
\* directory.
C13_Witness ==
    /\ chk.called
    /\ manifestFile = CorruptFile
    /\ fsDirs[ExtractDirName].state # "absent"
    /\ ~chk.verdict.upToDate

WouldSkip(p, v, s) ==
    SkipsDownload(FALSE, checkIfUpToDate(manifestFile, fsDirs, p, v, s))

\* What a call does with the registry's answer: it returns skipped = TRUE
\* only when it is not forced and the cache is up to date for the answer,
\* and has then changed nothing in the destination directory; and a
\* non-forced call goes on to download only when the cache is not up to
\* date for the answer.
SkipsExactlyWhenUpToDate ==
    /\ (npmPc = "getInfo" /\ npmResult'.kind = "ok") =>
         /\ npmPc' = "idle"
         /\ npmResult'.skipped
         /\ ~npmArgs.force
         /\ WouldSkip(npmResult'.name, npmResult'.answer.version,
                      npmResult'.answer.shasum)
         /\ UNCHANGED <<manifestFile, fsDirs, tarballs>>
    /\ (npmPc = "getInfo" /\ npmPc' = "download" /\ ~npmArgs.force) =>
         ~WouldSkip(npmArgs.packageName, npmInfo'.version, npmInfo'.shasum)

ManifestOfCompletedCall ==
    /\ manifestFile.kind = "json"
    /\ Get(StoredManifest, "packageName") = npmResult.name
    /\ Get(StoredManifest, "version") = npmResult.answer.version
    /\ Get(StoredManifest, "shasum") = npmResult.answer.shasum

NeedsDownload ==
    \A p \in Packages, v \in Versions, s \in Shasums \cup {Undefined} :
        ~checkIfUpToDate(manifestFile, fsDirs, p, v, s).upToDate

\* A clearCache call: it leaves the manifest and the package directory
\* absent, and returns TRUE iff one of the two was there; called again at
\* once it returns FALSE and changes nothing.
ClearCacheStep ==
    (npmPc = "idle" /\ npmPc' = "idle" /\ npmResult'.kind = "cleared") =>
      /\ manifestFile' = NoFile
      /\ fsDirs'[ExtractDirName] = NoDir
      /\ npmResult'.cleared <=>
           (manifestFile # NoFile \/ fsDirs[ExtractDirName] # NoDir)
      /\ npmResult.kind = "cleared" =>
           /\ ~npmResult'.cleared
           /\ UNCHANGED <<manifestFile, fsDirs, tarballs>>

\* C16: after clearCache the manifest and the package directory are absent,
\* and every checkIfUpToDate reports that a download is needed until a later
\* download succeeds; clearCache returns TRUE iff it removed one of the two,
\* so a call repeated at once returns FALSE and changes nothing.
C16_ClearCacheForcesDownload ==
    /\ []((npmPc = "idle" /\ npmResult.kind = "cleared") =>
            /\ manifestFile = NoFile
            /\ fsDirs[ExtractDirName] = NoDir)
    /\ [](manifestFile = NoFile => NeedsDownload)
    /\ [][ClearCacheStep]_vars
    /\ [][(manifestFile = NoFile /\ manifestFile' # NoFile) =>
            (npmResult'.kind = "ok" /\ ~npmResult'.skipped)]_vars

\* C16 witness: clearCache has returned TRUE after a download (whose
\* tarball was left behind).
C16_Witness ==
    /\ npmPc = "idle"
    /\ npmResult.kind = "cleared"
    /\ npmResult.cleared
    /\ \E t \in TarballPaths : tarballs[t] \in Digests

(***************************************************************************)
(* Build targets                                                           *)
(***************************************************************************)
\* The binary name a tool configuration gives, the tool id when it gives none.
BinaryNameOf(id, config) ==
    IF config = Undefined THEN id ELSE CLI_REGISTRY[config].build.binaryName

\* C17: generateBuildTargets returns, for every tool id and binary name B,
\* exactly one target per template, under the template's id, equal to the
\* template in every field and with output = B + '-' + id + extension, B
\* being the tool id when the configuration gives no binary name; for
\* claude-code the android-arm64 target has platform android, variant
\* termux, the Termux bash shell and output 'claude-code-android-arm64'.
C17_OneTargetPerTemplate ==
    call.fn = "generateBuildTargets" =>
      LET B == BinaryNameOf(call.toolId, call.toolConfig)
          targets == call.result
      IN /\ DOMAIN targets = DOMAIN BUILD_TARGET_TEMPLATES
         /\ \A id \in DOMAIN BUILD_TARGET_TEMPLATES :
              LET template == BUILD_TARGET_TEMPLATES[id]
              IN /\ DOMAIN targets[id] = DOMAIN template \cup {"output"}
                 /\ \A field \in DOMAIN template : targets[id][field] = template[field]
                 /\ targets[id].output = B \o "-" \o id \o template.extension
         /\ (call.toolId = "claude-code" /\ call.toolConfig = "claude-code") =>
              /\ targets["android-arm64"].platform = "android"
              /\ targets["android-arm64"].variant = "termux"
              /\ targets["android-arm64"].shell = "/data/data/com.termux/files/usr/bin/bash"
              /\ targets["android-arm64"].output = "claude-code-android-arm64"

\* C17 witness: a tool id with another tool's configuration got that
\* configuration's binary name in its output names.
C17_Witness ==
    /\ call.fn = "generateBuildTargets"
    /\ call.toolId = "mytool"
    /\ call.toolConfig = "codex"
    /\ call.result["windows-x64"].output = "codex-windows-x64.exe"
    /\ call.result["linux-arm64"].output = "codex-linux-arm64"

\* The prefix of a target id that names the host's operating system.
HostPrefix(processPlatform) ==
    IF processPlatform = "win32" THEN "windows-"
    ELSE IF processPlatform = "darwin" THEN "macos-"
    ELSE "linux-"

StartsWith(str, prefix) ==
    /\ Len(str) >= Len(prefix)
    /\ SubSeq(str, 1, Len(prefix)) = prefix

\* C18: getCurrentTarget returns an id of the default target set that
\* begins with 'windows-' on Windows, 'macos-' on macOS and 'linux-' on any
\* other host, for every host operating system and CPU architecture.
C18_CurrentTargetNamesHost ==
    call.fn = "getCurrentTarget" =>
      /\ call.result \in DOMAIN BUILD_TARGETS
      /\ StartsWith(call.result, HostPrefix(call.platform))

\* getCurrentTarget returns an id of the default target set, of the host's
\* own operating system when the set has a standard target for the host.
C18_CurrentTargetInDefaultSet ==
    call.fn = "getCurrentTarget" =>
      /\ call.result \in DOMAIN BUILD_TARGETS
      /\ (\E id \in DOMAIN BUILD_TARGETS :
            /\ StartsWith(id, HostPrefix(call.platform))
            /\ BUILD_TARGETS[id].arch = call.arch
            /\ BUILD_TARGETS[id].variant = "standard")
          => StartsWith(call.result, HostPrefix(call.platform))

(***************************************************************************)
(* Shell detection                                                         *)
(***************************************************************************)
\* `shell` is the first of `shells` in `found`, `fallback` when none is.
IsFirstOf(shell, shells, found, fallback) ==
    IF \A i \in DOMAIN shells : shells[i] \notin found
      THEN shell = fallback
      ELSE \E i \in DOMAIN shells :
             /\ shell = shells[i]
             /\ shells[i] \in found
             /\ \A j \in 1..(i - 1) : shells[j] \notin found

\* C19: the shell-detection function returns a non-empty shell: the
\* CLAUDE_SHELL override when set; else on Windows the first of pwsh.exe,
\* powershell.exe, cmd.exe found on the host, cmd.exe when none is; else
\* the Termux bash when it exists, else $SHELL when it names an existing
\* path, else the first existing of /bin/bash, /bin/zsh, /bin/sh, else
\* /bin/sh.
C19_ShellByPriority ==
    call.fn = "detectShell" =>
      LET env == call.env
          shell == call.result
          override == env.CLAUDE_SHELL \notin {Undefined, ""}
          userShell == env.SHELL \notin {Undefined, ""} /\ env.SHELL \in host.existing
      IN /\ shell \notin {Undefined, ""}
         /\ override => shell = env.CLAUDE_SHELL
         /\ (~override /\ host.platform = "win32") =>
              IsFirstOf(shell, winShells, host.onPath, "cmd.exe")
         /\ (~override /\ host.platform # "win32") =>
              /\ TermuxBash \in host.existing => shell = TermuxBash
              /\ (TermuxBash \notin host.existing /\ userShell) => shell = env.SHELL
              /\ (TermuxBash \notin host.existing /\ ~userShell) =>
                   IsFirstOf(shell, unixShells, host.existing, "/bin/sh")

\* C19 witness: without an override, on a host with the Termux bash and
\* with $SHELL naming an existing shell, the Termux bash was returned.
C19_Witness ==
    /\ call.fn = "detectShell"
    /\ call.env.CLAUDE_SHELL = Undefined
    /\ call.env.SHELL = "/bin/zsh"
    /\ host.platform = "linux"
    /\ {TermuxBash, "/bin/zsh"} \subseteq host.existing
    /\ call.result = TermuxBash

(***************************************************************************)
(* prepareSource                                                           *)
(***************************************************************************)
\* No block of the builder occurs twice in a text, and no statement the
\* builder adds occurs twice in the tool's code.
NoDuplicatedDeclarations(content) ==
    /\ \A i, j \in DOMAIN content :
          (content[i].kind = content[j].kind /\ content[i].kind # "body") => i = j
    /\ \A i \in DOMAIN content :
          content[i].kind = "body" =>
            \A m, n \in DOMAIN content[i].marks :
                content[i].marks[m] = content[i].marks[n] => m = n

\* A step of a prepareSource call that returns: the entry point and every
\* other file but the prepared one are as before, the prepared file is what
\* the patches make of the entry point alone, and a call with the arguments
\* of the call before it writes what that call wrote.
PrepareSourceStep ==
    (call'.fn = "prepareSource" /\ ~call'.threw) =>
      LET entry == EntryPoint(call'.toolConfig)
          path  == PreparedPath(call'.toolConfig, call'.platform)
          clean == [f \in DOMAIN srcFiles \ {path} |-> srcFiles[f]]
      IN /\ entry # path
         /\ DOMAIN srcFiles' = DOMAIN srcFiles \cup {path}
         /\ \A f \in DOMAIN srcFiles \ {path} : srcFiles'[f] = srcFiles[f]
         /\ srcFiles'[path] = PreparedContent(clean, call'.toolConfig, call'.platform)
         /\ NoDuplicatedDeclarations(srcFiles'[path])
         /\ call'.repeated => srcFiles'[path] = srcFiles[path]

\* C20: prepareSource starts from the pristine entry point, never from a
\* prepared file, and leaves the entry point unchanged, so consecutive
\* calls with the same source directory, platform and tool configuration
\* write the same prepared text, with no duplicated declaration.
C20_PreparedFromPristine == [][PrepareSourceStep]_vars

\* C20 witness: a second Windows call with the same arguments has
\* returned, in a directory that also holds an older prepared file, and
\* the prepared text carries each mark once.
C20_Witness ==
    /\ call.fn = "prepareSource"
    /\ call.repeated
    /\ ~call.threw
    /\ call.platform = "windows"
    /\ call.toolConfig = "codex"
    /\ PreparedPath("codex", "linux") \in DOMAIN srcFiles
    /\ \E i \in DOMAIN srcFiles[PreparedPath("codex", "windows")] :
          LET part == srcFiles[PreparedPath("codex", "windows")][i]
          IN /\ part.kind = "body"
             /\ part.marks = <<"CODEX_BUNDLED", "CODEX_WINDOWS_EXECUTABLE">>

(***************************************************************************)
(* cleanBuildArtifacts and the place of the prepared file                  *)
(***************************************************************************)
\* C21: after cleanBuildArtifacts(sourceDir) no prepared file of
\* prepareSource is left in sourceDir, for every registered tool's entry
\* point and every target platform; without such a file the call changes
\* nothing.
C21_NoPreparedFileLeft ==
    call.fn = "cleanBuildArtifacts" =>
      /\ \A config \in ToolConfigs, platform \in PreparePlatforms :
            PreparedPath(config, platform) \notin DOMAIN srcFiles
      /\ (\A config \in ToolConfigs, platform \in PreparePlatforms :
            PreparedPath(config, platform) \notin call.before)
          => DOMAIN srcFiles = call.before

\* cleanBuildArtifacts leaves none of the artifacts it lists, and every
\* other file where it was.
C21_ListedArtifactsRemoved ==
    call.fn = "cleanBuildArtifacts" =>
      /\ DOMAIN srcFiles \cap BuildArtifacts = {}
      /\ DOMAIN srcFiles = call.before \ BuildArtifacts

\* C23: prepareSource writes the prepared file into the directory of the
\* entry point, named by the entry point's base name followed by
\* '-windows-prepared.js' for windows and '-prepared.js' for every other
\* platform, also for an entry point in a subdirectory of sourceDir.
C23_PreparedBesideEntryPoint ==
    (call.fn = "prepareSource" /\ ~call.threw) =>
      LET entry == EntryPoint(call.toolConfig)
      IN /\ call.path \in DOMAIN srcFiles
         /\ call.path = DirOf(entry) \o BaseOf(entry) \o
                           (IF call.platform = "windows" THEN "-windows-prepared.js"
                            ELSE "-prepared.js")

\* The prepared file is written into sourceDir itself, under the entry
\* point's base name and the platform's suffix.
C23_PreparedInSourceDir ==
    (call.fn = "prepareSource" /\ ~call.threw) =>
      LET entry == EntryPoint(call.toolConfig)
      IN /\ call.path \in DOMAIN srcFiles
         /\ call.path = BaseOf(entry) \o
                           (IF call.platform = "windows" THEN "-windows-prepared.js"
                            ELSE "-prepared.js")

(***************************************************************************)
(* The directory checkIfUpToDate looks for                                 *)
(***************************************************************************)
\* C22: the directory checkIfUpToDate requires is the one the manifest
\* records: whenever the directory named by the manifest's extractDir field
\* does not exist, the verdict is that a download is needed.
C22_RecordedDirRequired ==
    ( /\ chk.called
      /\ manifestFile.kind = "json"
      /\ "extractDir" \in DOMAIN StoredManifest
      /\ fsDirs[StoredManifest["extractDir"]] = NoDir )
    => ~chk.verdict.upToDate

\* Whenever destDir/package does not exist, the verdict is that a download
\* is needed, whatever directory the manifest records.
C22_PackageDirRequired ==
    (chk.called /\ fsDirs[ExtractDirName] = NoDir) => ~chk.verdict.upToDate

(***************************************************************************)
(* The patch stages                                                        *)
(***************************************************************************)
\* The tool's own code in a text.
BodyOf(content) == content[CHOOSE i \in DOMAIN content : content[i].kind = "body"]

\* The configured environment prefix of a call.
PrefixOf(config) ==
    IF config = Undefined THEN "CLI_TOOL" ELSE CLI_REGISTRY[config].build.envPrefix

\* C24: when the source has process.env.<X>_ENTRYPOINT="cli", the marker
\* rewrite of applyCommonPatches keeps that assignment as it is and puts
\* process.env.<PREFIX>_BUNDLED="1" directly after it, PREFIX being the
\* tool's configured prefix, and changes nothing else in the tool's code.
C24_EntrypointKept ==
    ( /\ call.fn = "applyCommonPatches"
      /\ call.applied = 1
      /\ BodyOf(call.content).entrypoint # Undefined )
    => /\ BodyOf(call.result).entrypoint = BodyOf(call.content).entrypoint
       /\ BodyOf(call.result).marks =
            <<PrefixOf(call.toolConfig) \o "_BUNDLED">> \o BodyOf(call.content).marks
       /\ BodyOf(call.result).posix = BodyOf(call.content).posix

\* The marker rewrite puts the BUNDLED statement of the configured prefix
\* directly after the ENTRYPOINT assignment, which it rewrites to the
\* configured prefix.
C24_BundledMarkAdded ==
    ( /\ call.fn = "applyCommonPatches"
      /\ call.applied = 1
      /\ BodyOf(call.content).entrypoint # Undefined )
    => /\ BodyOf(call.result).entrypoint = PrefixOf(call.toolConfig)
       /\ BodyOf(call.result).marks =
            <<PrefixOf(call.toolConfig) \o "_BUNDLED">> \o BodyOf(call.content).marks
       /\ BodyOf(call.result).posix = BodyOf(call.content).posix

\* C25: each patch stage is idempotent: applied to its own output, it
\* returns that output unchanged.
C25_StagesIdempotent ==
    ( /\ call.fn \in {"addEmbeddedImports", "applyWindowsPatches", "applyCommonPatches"}
      /\ call.applied >= 2 )
    => call.result = call.content

\* The kinds of the parts of a text, in order.
KindsOf(content) == [i \in DOMAIN content |-> content[i].kind]

\* A text without its shebang line.
WithoutShebang(content) == IF HasShebang(content) THEN Tail(content) ELSE content

\* C26: a prepareSource run that returns goes through read, asset
\* embedding, Windows shim, common shims, write, in this order; the Windows
\* shim runs exactly for the platform 'windows' and every other stage for
\* every platform; a substitution without a match is skipped and the run
\* still returns.  (A later stage puts its block in front of the earlier
\* ones, so the order shows in the prepared text.)
C26_StagesInOrder ==
    (call.fn = "prepareSource" /\ ~call.threw) =>
      LET entry    == srcFiles[EntryPoint(call.toolConfig)]
          prepared == srcFiles[call.path]
          windows  == call.platform = "windows"
      IN /\ call.status =
              <<"Reading CLI source", "Adding embedded file imports">>
              \o (IF windows THEN <<"Applying Windows-specific patches">> ELSE <<>>)
              \o <<"Applying common patches", "Prepared source written">>
         /\ KindsOf(prepared) =
              <<"SHELL_DETECTION_CODE">>
              \o (IF windows THEN <<"windowsHeader">> ELSE <<>>)
              \o <<"embeddedCode">>
              \o KindsOf(WithoutShebang(entry))
         /\ BodyOf(prepared).posix = (BodyOf(entry).posix /\ ~windows)
         /\ BodyOf(prepared).marks =
              IF BodyOf(entry).entrypoint = Undefined THEN <<>>
              ELSE <<PrefixOf(call.toolConfig) \o "_BUNDLED">>
                   \o (IF windows
                         THEN <<PrefixOf(call.toolConfig) \o "_WINDOWS_EXECUTABLE">>
                         ELSE <<>>)
         /\ BodyOf(prepared).shellCheck =
              IF BodyOf(entry).shellCheck = "throws" THEN "detects"
              ELSE BodyOf(entry).shellCheck

\* C26 witness: a Windows run has returned on an entry point with a shebang
\* line and with neither an ENTRYPOINT assignment nor a shell check to
\* replace.
C26_Witness ==
    /\ call.fn = "prepareSource"
    /\ ~call.threw
    /\ call.platform = "windows"
    /\ Len(call.status) = 5
    /\ HasShebang(srcFiles[EntryPoint(call.toolConfig)])
    /\ BodyOf(srcFiles[EntryPoint(call.toolConfig)]).entrypoint = Undefined
    /\ BodyOf(srcFiles[EntryPoint(call.toolConfig)]).shellCheck = "none"
    /\ BodyOf(srcFiles[call.path]).marks = <<>>

(***************************************************************************)
(* extractTarball                                                          *)
(***************************************************************************)
\* The strategies of a host, in order.
Applicable(isWindows) ==
    IF isWindows THEN <<"tar", "powershell", "node">> ELSE <<"tar", "node">>

RECURSIVE ExpectedFiles(_)
ExpectedFiles(entries) ==
    IF entries = <<>> THEN <<>>
    ELSE LET e == entries[Len(entries)]
             made == IF e.typeFlag = 53 \/ EndsWithSlash(e.name)
                       THEN e.name :> [kind |-> "directory"]
                     ELSE IF e.typeFlag \in {0, 48}
                       THEN (e.name :> [kind |-> "file", bytes |-> e.size])
                            @@ (DirOf(e.name) :> [kind |-> "directory"])
                     ELSE <<>>
         IN made @@ ExpectedFiles(SubSeq(entries, 1, Len(entries) - 1))

\* The tar reader is running; it has returned.
ReaderRunning == call.fn = "extractTarball" /\ call.pc = "reading"
ReaderOver    == call.fn = "extractTarball" /\ call.pc \in {"resolved", "rejected"}
ReaderReturned ==
    /\ call.fn = "extractTarball"
    /\ call.pc = "resolved"
    /\ call.tried # <<>>
    /\ call.tried[Len(call.tried)] = "node"

\* C28: the in-process tar reader terminates on every input, and when it
\* returns it has made a directory for every directory member, written
\* the declared number of bytes for every regular file, and skipped every
\* member of another type without losing the members after it.
C28_ReaderTerminatesAndExtracts ==
    /\ ReaderRunning ~> ReaderOver
    /\ [](ReaderReturned => call.files = ExpectedFiles(call.entries))

\* An archive with no negative size field that ends with zero blocks.
WellFormed ==
    /\ \A i \in DOMAIN call.entries : call.entries[i].size >= 0
    /\ Len(call.buffer) > 0
    /\ call.buffer[Len(call.buffer)] = ZeroBlock

\* On such an archive the reader terminates and extracts every member.
C28_ReaderOnWellFormedArchives ==
    /\ (ReaderRunning /\ WellFormed) ~> ReaderOver
    /\ []((ReaderReturned /\ WellFormed) => call.files = ExpectedFiles(call.entries))

(***************************************************************************)
(* downloadFile after a redirect                                           *)
(***************************************************************************)
\* The caller's promise settles in a step that ends the current request.
SettledByCurrentRequest ==
    (dlOutcome = "pending" /\ dlOutcome' # "pending") => (dlPc # "closed" /\ dlPc' = "closed")

\* C29: once a redirect was received and the redirected request started,
\* the outcome downloadFile reports is the outcome of the redirected
\* request alone: the handlers of the original request do not make the
\* download fail while the redirected transfer runs, nor after it has
\* succeeded.
C29_OutcomeOfRedirectedRequest ==
    /\ [][SettledByCurrentRequest]_vars
    /\ [][dlOutcome = "resolved" => dlOutcome' = "resolved"]_vars

\* A download that has succeeded stays succeeded, whatever handler of the
\* original request runs afterwards.
C29_SuccessIsFinal == [][dlOutcome = "resolved" => dlOutcome' = "resolved"]_vars

(***************************************************************************)
(* Key presses while an action runs                                        *)
(***************************************************************************)
\* C30: a key press that arrives while a download or build action is
\* still running never starts a second one: at any time at most one
\* download or build is in progress against a tool's source directory.
C30_OneActionPerSourceDir ==
    call.fn = "main" =>
        \A i, j \in DOMAIN call.running :
            (/\ i # j
             /\ InProgress(call.running[i])
             /\ InProgress(call.running[j]))
                => call.running[i].tool # call.running[j].tool

\* While a waitForKey is pending no 'keypress' listener is attached, so a
\* key press then starts no action.
C30_NoListenerWhileWaitingForKey ==
    call.fn = "main" =>
        ((\E i \in DOMAIN call.running : call.running[i].pc = "waitForKey")
            => call.keypress = 0)

====
